---- MODULE Spec2Model ----
(***************************************************************************)
(* Model of the thumbnail-tester pipeline of the YouTube Context Engine:   *)
(* the channel resolver and its worker pool (app/utils/channel_resolver),  *)
(* the video fetcher (app/services/youtube_service), and the generate /    *)
(* shuffle handlers of app/features/thumbnail/router.                      *)
(*                                                                         *)
(* Strings that the code inspects character by character (channel handles  *)
(* and URLs) are sequences of one-character strings.  Python's None is a   *)
(* distinguished value of each type (None, NoneStr, NoneId).               *)
(***************************************************************************)
EXTENDS Integers, Sequences, FiniteSets, TLC

\* ------------------------------------------------------------------------
\* Bounds of the model
\* ------------------------------------------------------------------------
\* longest list of handles handed to resolve_channels_parallel
MaxHandles == 2

\* ------------------------------------------------------------------------
\* Python values
\* ------------------------------------------------------------------------
\* None where an int is expected (view_count, duration_seconds)
None == -1
\* None where a str is expected (url, clean_input)
NoneStr == <<"<None>">>
\* None where a channel id is expected
NoneId == [tag |-> "None", len |-> 0]

\* ------------------------------------------------------------------------
\* str operations used by the resolver, on sequences of characters
\* ------------------------------------------------------------------------
RECURSIVE LStrip(_)
LStrip(s) == IF s # <<>> /\ Head(s) = " " THEN LStrip(Tail(s)) ELSE s

RECURSIVE RStrip(_)
RStrip(s) ==
    IF s # <<>> /\ s[Len(s)] = " " THEN RStrip(SubSeq(s, 1, Len(s) - 1)) ELSE s

\* str.strip()
Strip(s) == RStrip(LStrip(s))

\* sub occurs in s at index i
OccursAt(s, sub, i) ==
    /\ i >= 1
    /\ i + Len(sub) - 1 <= Len(s)
    /\ SubSeq(s, i, i + Len(sub) - 1) = sub

\* the indices at which sub occurs in s
Occurrences(s, sub) == {i \in 1..Len(s) : OccursAt(s, sub, i)}

\* sub in s
Contains(s, sub) == Occurrences(s, sub) # {}

\* s.startswith(sub)
StartsWith(s, sub) == OccursAt(s, sub, 1)

Max(S) == CHOOSE x \in S : \A y \in S : y <= x
Min(S) == CHOOSE x \in S : \A y \in S : x <= y

\* s.split(sep)[-1]: what follows the last occurrence of sep (s if none)
SplitLast(s, sep) ==
    IF Contains(s, sep)
    THEN SubSeq(s, Max(Occurrences(s, sep)) + Len(sep), Len(s))
    ELSE s

\* s.split(sep)[0]: what precedes the first occurrence of sep (s if none)
SplitFirst(s, sep) ==
    IF Contains(s, sep)
    THEN SubSeq(s, 1, Min(Occurrences(s, sep)) - 1)
    ELSE s

\* the literals of get_channel_id_from_html
YOUTUBE_COM == <<"y","o","u","t","u","b","e",".","c","o","m">>
YOUTUBE_COM_SLASH == YOUTUBE_COM \o <<"/">>
YOUTU_BE == <<"y","o","u","t","u",".","b","e">>
CHANNEL_SLASH == <<"c","h","a","n","n","e","l","/">>
C_SLASH == <<"c","/">>
AT == <<"@">>
QMARK == <<"?">>
URL_PREFIX == <<"h","t","t","p","s",":","/","/","w","w","w",".">> \o YOUTUBE_COM_SLASH

\* ------------------------------------------------------------------------
\* The channel page: what one HTTP GET can answer
\* ------------------------------------------------------------------------
\* number of characters of a stable channel id: "UC" and 22 more
IdLen == 24

\* an id-like token embedded in a page: its name and its number of characters
IdA == [tag |-> "UCa", len |-> 24]
IdB == [tag |-> "UCb", len |-> 24]
IdShort == [tag |-> "UCs", len |-> 10]

\* What a GET of url can answer: the page of the channel as the platform
\* serves it (the ids embedded in it: `link` in a canonical channel link,
\* `ext` in an "externalId" field), a page with another status, or no answer
\* at all (status 0: the request raised, timeout or network error).
ChannelPages(url) ==
    IF url = <<"@", "a">>
    THEN { [status |-> 200, link |-> IdA, ext |-> NoneId],
           [status |-> 200, link |-> IdA, ext |-> IdB] }
    ELSE IF url = <<"@", "b">>
    THEN { [status |-> 200, link |-> NoneId, ext |-> IdB] }
    ELSE { [status |-> 200, link |-> IdShort, ext |-> NoneId],
           [status |-> 200, link |-> NoneId, ext |-> NoneId] }

Responses(url) ==
    ChannelPages(url)
    \cup { [status |-> 404, link |-> IdA,    ext |-> NoneId],
           [status |-> 0,   link |-> NoneId, ext |-> NoneId] }

\* re.search(r'...(UC[\w-]{22})', text).group(1) for one embedded token:
\* the pattern takes exactly 24 characters, and needs that many
RegexId(cand) ==
    IF cand # NoneId /\ cand.len >= IdLen
    THEN [tag |-> cand.tag, len |-> IdLen]
    ELSE NoneId

\* ------------------------------------------------------------------------
\* get_channel_id_from_html
\* ------------------------------------------------------------------------
\* lines 22-43: the request url, NoneStr when `url` was never assigned
IsFullUrl(clean) == Contains(clean, YOUTUBE_COM) \/ Contains(clean, YOUTU_BE)

IsHandleUrl(clean) ==
    /\ Contains(clean, AT)
    /\ ~Contains(clean, CHANNEL_SLASH)
    /\ ~Contains(clean, C_SLASH)

\* clean_input after "Case 1"
CleanAfterCase1(clean) ==
    IF IsFullUrl(clean)
    THEN IF IsHandleUrl(clean)
         THEN LET seg == SplitFirst(SplitLast(clean, YOUTUBE_COM_SLASH), QMARK)
              IN  IF StartsWith(seg, AT) THEN seg ELSE AT \o seg
         ELSE NoneStr
    ELSE clean

\* clean_input after "Case 2"
CleanAfterCase2(c1) ==
    IF c1 # NoneStr /\ c1 # <<>>
    THEN IF StartsWith(c1, AT) THEN c1 ELSE AT \o c1
    ELSE c1

RequestUrl(channel_input) ==
    LET clean == Strip(channel_input)
        c1 == CleanAfterCase1(clean)
    IN  IF c1 # NoneStr /\ c1 # <<>>
        THEN URL_PREFIX \o CleanAfterCase2(c1)
        ELSE IF IsFullUrl(clean) /\ ~IsHandleUrl(clean)
             THEN clean
             ELSE NoneStr

\* the part of a request url after https://www.youtube.com/
UrlPath(url) ==
    IF StartsWith(url, URL_PREFIX)
    THEN SubSeq(url, Len(URL_PREFIX) + 1, Len(url))
    ELSE url

\* the two patterns tried in the other order
PageId_JsonFirst(resp) ==
    IF resp.status = 200
    THEN IF RegexId(resp.ext) # NoneId
         THEN RegexId(resp.ext)
         ELSE RegexId(resp.link)
    ELSE NoneId

\* lines 45-61: the id found in the answer
PageId(resp) ==
    IF resp.status = 200
    THEN IF RegexId(resp.link) # NoneId
         THEN RegexId(resp.link)
         ELSE RegexId(resp.ext)
    ELSE NoneId

\* The whole function.  When `url` is unbound the read of it inside the try
\* raises, the handler logs and its `return None, url` raises again.
get_channel_id_from_html(channel_input, resp) ==
    LET url == RequestUrl(channel_input)
    IN  IF url = NoneStr
        THEN [raised |-> TRUE, channel_id |-> NoneId, url |-> NoneStr]
        ELSE [raised |-> FALSE, channel_id |-> PageId(resp), url |-> url]

\* ------------------------------------------------------------------------
\* resolve_channel_handle
\* ------------------------------------------------------------------------
\* the dict it returns; nothing when get_channel_id_from_html raised
resolve_channel_handle(channel_handle, resp) ==
    LET r == get_channel_id_from_html(channel_handle, resp)
    IN  IF r.raised
        THEN [raised |-> TRUE, handle |-> NoneStr, channel_id |-> NoneId,
              url |-> NoneStr, success |-> FALSE]
        ELSE [raised     |-> FALSE,
              handle     |-> channel_handle,
              channel_id |-> r.channel_id,
              url        |-> r.url,
              success    |-> r.channel_id # NoneId]

\* ------------------------------------------------------------------------
\* helpers.py
\* ------------------------------------------------------------------------
\* \d of the pattern, and int() of one digit
Digits == {"0", "1", "2", "3", "4", "5", "6", "7", "8", "9"}

DigitValue(c) ==
    CASE c = "0" -> 0 [] c = "1" -> 1 [] c = "2" -> 2 [] c = "3" -> 3
      [] c = "4" -> 4 [] c = "5" -> 5 [] c = "6" -> 6 [] c = "7" -> 7
      [] c = "8" -> 8 [] c = "9" -> 9

\* int(text) of a run of digits
RECURSIVE ToInt(_)
ToInt(text) ==
    IF text = <<>> THEN 0
    ELSE ToInt(SubSeq(text, 1, Len(text) - 1)) * 10 + DigitValue(text[Len(text)])

\* the last index of the run of digits that starts at p (p - 1: no digit at p)
RECURSIVE DigitRunEnd(_, _)
DigitRunEnd(text, p) ==
    IF p <= Len(text) /\ text[p] \in Digits
    THEN DigitRunEnd(text, p + 1)
    ELSE p - 1

\* (?:(\d+)X)? tried at p: the group and where the match goes on
OptionalGroup(text, p, letter) ==
    LET e == DigitRunEnd(text, p)
    IN  IF e >= p /\ e + 1 <= Len(text) /\ text[e + 1] = letter
        THEN [group |-> SubSeq(text, p, e), next |-> e + 2]
        ELSE [group |-> NoneStr, next |-> p]

\* int(match.group(k) or 0)
GroupOrZero(group) == IF group = NoneStr THEN 0 ELSE ToInt(group)

\* re.match(r'PT(?:(\d+)H)?(?:(\d+)M)?(?:(\d+)S)?', duration_iso)
DurationMatch(duration_iso) ==
    IF Len(duration_iso) >= 2 /\ duration_iso[1] = "P" /\ duration_iso[2] = "T"
    THEN LET h == OptionalGroup(duration_iso, 3, "H")
             m == OptionalGroup(duration_iso, h.next, "M")
             sec == OptionalGroup(duration_iso, m.next, "S")
         IN  [matched |-> TRUE, g1 |-> h.group, g2 |-> m.group, g3 |-> sec.group]
    ELSE [matched |-> FALSE, g1 |-> NoneStr, g2 |-> NoneStr, g3 |-> NoneStr]

\* parse_iso_duration counting an hour as sixty seconds
parse_iso_duration_HourAsMinute(duration_iso) ==
    IF duration_iso = NoneStr \/ duration_iso = <<>>
    THEN 0
    ELSE LET match == DurationMatch(duration_iso)
         IN  IF ~match.matched
             THEN 0
             ELSE GroupOrZero(match.g1) * 60 + GroupOrZero(match.g2) * 60
                    + GroupOrZero(match.g3)

\* parse_iso_duration(duration_iso)
parse_iso_duration(duration_iso) ==
    IF duration_iso = NoneStr \/ duration_iso = <<>>
    THEN 0
    ELSE LET match == DurationMatch(duration_iso)
         IN  IF ~match.matched
             THEN 0
             ELSE GroupOrZero(match.g1) * 3600 + GroupOrZero(match.g2) * 60
                    + GroupOrZero(match.g3)

\* is_shorts taking a video of exactly the threshold for a Short
is_shorts_Inclusive(duration_seconds, threshold) ==
    duration_seconds # None /\ duration_seconds <= threshold

\* is_shorts(duration_seconds, threshold)
is_shorts(duration_seconds, threshold) ==
    duration_seconds # None /\ duration_seconds < threshold

\* format_duration(seconds): `seconds < 3600` raises TypeError on None;
\* otherwise the fields of M:SS or H:MM:SS
format_duration(seconds) ==
    IF seconds = None
    THEN [raised |-> TRUE, text |-> <<>>]
    ELSE IF seconds < 3600
         THEN [raised |-> FALSE, text |-> <<seconds \div 60, seconds % 60>>]
         ELSE [raised |-> FALSE,
               text |-> <<seconds \div 3600, (seconds % 3600) \div 60,
                          (seconds % 3600) % 60>>]

\* config.py
shorts_duration_threshold == 60
videos_per_channel == 2

\* ------------------------------------------------------------------------
\* sequences
\* ------------------------------------------------------------------------
\* the orders random.shuffle can leave a list in
Shuffles(s) ==
    { [i \in 1..Len(s) |-> s[p[i]]] :
        p \in { q \in [1..Len(s) -> 1..Len(s)] :
                   \A i, j \in 1..Len(s) : q[i] = q[j] => i = j } }

\* s[:k] + [x] + s[k:]
InsertAt(s, k, x) == SubSeq(s, 1, k) \o <<x>> \o SubSeq(s, k + 1, Len(s))

\* int(total_videos * 2 / 3) and the range random.randint draws from
\* (router.py:480-482, 541-544, 698-700)
TopTwoThirds(total_videos) == (total_videos * 2) \div 3

\* random.randint(0, top_two_thirds): the upper end is not excluded
UserPositions_Inclusive(competitors) ==
    0..TopTwoThirds(Len(competitors) + 1)

UserPositions(competitors) ==
    LET top_two_thirds == TopTwoThirds(Len(competitors) + 1)
    IN  0..(IF top_two_thirds - 1 > 0 THEN top_two_thirds - 1 ELSE 0)

\* ------------------------------------------------------------------------
\* The video platform: what the YouTube Data API holds
\* ------------------------------------------------------------------------
Vid(n) == [kind |-> "yt", n |-> n]

\* the uploads playlist of a channel, newest first: a 30 s short and a video
\* of 8 min 20 s on one channel, a video of exactly one minute on the other
Uploads(channel_id) ==
    IF channel_id = [tag |-> "UCa", len |-> 24]
    THEN << [id |-> Vid(1), duration |-> <<"P", "T", "3", "0", "S">>, viewCount |-> 90],
            [id |-> Vid(2), duration |-> <<"P", "T", "8", "M", "2", "0", "S">>, viewCount |-> 1200] >>
    ELSE IF channel_id = [tag |-> "UCb", len |-> 24]
    THEN << [id |-> Vid(3), duration |-> <<"P", "T", "1", "M">>, viewCount |-> 7000] >>
    ELSE <<>>

\* How the three API calls of one get_recent_videos behave: whether
\* channels().list, playlistItems().list and videos().list answer; the
\* positions of the listed ids for which videos().list returns no item (a
\* video that is private or deleted by then); and how many items of
\* videos().list are assembled before something raises (videos_per_channel
\* or more: none does)
ApiSamples ==
    { [info |-> TRUE,  playlist |-> TRUE,  details |-> TRUE,  omitted |-> {},
       assembled |-> videos_per_channel],
      [info |-> TRUE,  playlist |-> TRUE,  details |-> TRUE,  omitted |-> {},
       assembled |-> 1],
      [info |-> FALSE, playlist |-> TRUE,  details |-> TRUE,  omitted |-> {},
       assembled |-> videos_per_channel],
      [info |-> TRUE,  playlist |-> FALSE, details |-> TRUE,  omitted |-> {},
       assembled |-> videos_per_channel],
      [info |-> TRUE,  playlist |-> TRUE,  details |-> FALSE, omitted |-> {},
       assembled |-> videos_per_channel],
      [info |-> TRUE,  playlist |-> TRUE,  details |-> TRUE,  omitted |-> {1},
       assembled |-> videos_per_channel] }

\* ------------------------------------------------------------------------
\* youtube_service.py
\* ------------------------------------------------------------------------
\* a VideoData named after the channel's title instead of the name supplied
VideoData_ChannelTitle(item, channel_id, channel_name) ==
    [video_id         |-> item.id,
     channel_id       |-> channel_id,
     channel_name     |-> <<"title of", channel_id.tag>>,
     view_count       |-> item.viewCount,
     duration_seconds |-> parse_iso_duration(item.duration),
     is_user_video    |-> FALSE]

\* lines 117-127: one VideoData.  is_user_video is not a field of VideoData:
\* it is the value video.get('is_user_video', False) reads from its dump
VideoData(item, channel_id, channel_name) ==
    [video_id         |-> item.id,
     channel_id       |-> channel_id,
     channel_name     |-> channel_name,
     view_count       |-> item.viewCount,
     duration_seconds |-> parse_iso_duration(item.duration),
     is_user_video    |-> FALSE]

Smaller(a, b) == IF a < b THEN a ELSE b

\* lines 80-84: playlistItems().list(maxResults=max_results), one page
PlaylistResponse(channel_id, max_results) ==
    SubSeq(Uploads(channel_id), 1, Smaller(max_results, Len(Uploads(channel_id))))

\* lines 103-108: the items videos().list answers for the listed ids
RECURSIVE DetailsFrom(_, _, _)
DetailsFrom(listed, omitted, k) ==
    IF k > Len(listed) THEN <<>>
    ELSE (IF k \in omitted THEN <<>> ELSE <<listed[k]>>)
         \o DetailsFrom(listed, omitted, k + 1)

VideosResponse(listed, omitted) == DetailsFrom(listed, omitted, 1)

\* get_recent_videos giving up its records when a later step fails
get_recent_videos_AllOrNothing(channel_id, channel_name, max_results, api) ==
    IF ~api.info \/ ~api.playlist \/ ~api.details
    THEN <<>>
    ELSE LET items == VideosResponse(PlaylistResponse(channel_id, max_results),
                                     api.omitted)
         IN  IF api.assembled < Len(items)
             THEN <<>>
             ELSE [k \in 1..Len(items) |->
                      VideoData(items[k], channel_id, channel_name)]

\* get_recent_videos: `videos` as it stands when the function returns, at
\* line 75 or, after the try block or its handler, at line 136
get_recent_videos(channel_id, channel_name, max_results, api) ==
    IF ~api.info \/ ~api.playlist \/ ~api.details
    THEN <<>>
    ELSE LET items == VideosResponse(PlaylistResponse(channel_id, max_results),
                                     api.omitted)
             done  == Smaller(api.assembled, Len(items))
         IN  [k \in 1..done |-> VideoData(items[k], channel_id, channel_name)]

\* get_videos_for_channels without its `if not channel.get('success')`
RECURSIVE get_videos_for_channels_NoCheck(_, _, _)
get_videos_for_channels_NoCheck(channel_data, per_channel, apis) ==
    IF channel_data = <<>> THEN [videos |-> <<>>, calls |-> <<>>]
    ELSE LET channel == Head(channel_data)
             rest    == get_videos_for_channels_NoCheck(Tail(channel_data),
                                                        per_channel, Tail(apis))
         IN  [videos |-> get_recent_videos(channel.channel_id, channel.handle,
                                           per_channel, Head(apis))
                          \o rest.videos,
              calls  |-> <<channel>> \o rest.calls]

\* get_videos_for_channels putting each channel's videos in front of the list
RECURSIVE get_videos_for_channels_Prepend(_, _, _)
get_videos_for_channels_Prepend(channel_data, per_channel, apis) ==
    IF channel_data = <<>> THEN [videos |-> <<>>, calls |-> <<>>]
    ELSE LET channel == Head(channel_data)
             rest    == get_videos_for_channels_Prepend(Tail(channel_data),
                                                        per_channel, Tail(apis))
         IN  IF ~channel.success
             THEN rest
             ELSE [videos |-> rest.videos
                              \o get_recent_videos(channel.channel_id, channel.handle,
                                                   per_channel, Head(apis)),
                   calls  |-> <<channel>> \o rest.calls]

\* get_videos_for_channels; apis[k] is how the API behaves for channel_data[k].
\* videos: the list returned; calls: the channel records it handed to
\* get_recent_videos, in order
RECURSIVE get_videos_for_channels(_, _, _)
get_videos_for_channels(channel_data, per_channel, apis) ==
    IF channel_data = <<>> THEN [videos |-> <<>>, calls |-> <<>>]
    ELSE LET channel == Head(channel_data)
             rest    == get_videos_for_channels(Tail(channel_data), per_channel,
                                                Tail(apis))
         IN  IF ~channel.success
             THEN rest
             ELSE [videos |-> get_recent_videos(channel.channel_id, channel.handle,
                                                per_channel, Head(apis))
                              \o rest.videos,
                   calls  |-> <<channel>> \o rest.calls]

\* ------------------------------------------------------------------------
\* router.py: format_videos_for_template
\* ------------------------------------------------------------------------
\* raises as soon as one video's format_duration raises
format_videos_for_template(videos) ==
    IF \E k \in DOMAIN videos : format_duration(videos[k].duration_seconds).raised
    THEN [raised |-> TRUE, formatted |-> <<>>]
    ELSE [raised |-> FALSE,
          formatted |-> [k \in DOMAIN videos |->
              [video_id      |-> videos[k].video_id,
               is_user_video |-> videos[k].is_user_video,
               duration      |-> format_duration(videos[k].duration_seconds).text]]]

\* ------------------------------------------------------------------------
\* State
\* ------------------------------------------------------------------------
VARIABLES
    \* resolve_channels_parallel: its argument, its futures, its locals
    channel_handles,   \* the handles of the call in progress
    futures,           \* future_to_handle: one entry per submitted task
    order,             \* the futures in the order as_completed yielded them
    results,           \* the local list `results`
    poolPc,            \* "off", "start", "collect", "returned"
    \* generate_preview: the request being handled
    genPc,             \* where the handler stands
    g,                 \* its response, and its locals while a later line
                       \* of the handler still reads them
    \* shuffle_results: the call just served, its locals and its response
    sh,
    \* the process and the stores
    sessions,          \* router.sessions: session id -> stored video list
    thumbnail_tests,   \* table thumbnail_tests; the id of a row is its index
    test_videos,       \* table test_videos
    youtube_videos,    \* table youtube_videos
    csv_log,           \* video ids written to competitor_data.csv
    usage,             \* profiles.tests_used_this_month of each user
    \* single calls of the services, each with its arguments, its locals and
    \* what it returned
    scrape,            \* get_channel_id_from_html
    fetch,             \* YouTubeService.get_videos_for_channels
    ai,                \* AIService.get_channel_suggestions
    angles,            \* AngleGeneratorService.generate_angles
    bucket,            \* ViralVideoService.calculate_view_bucket
    duration,          \* helpers.parse_iso_duration
    transcript,        \* TranscriptService: the stored transcripts, the calls
    viral,             \* ViralVideoService.scrape_channel and viral_videos
    quota,             \* concurrent generate_preview requests of one user
    cache,             \* AngleCacheService._cache and the angle routes
    stripe             \* StripeService: the profiles and the webhook served

poolVars == <<channel_handles, futures, order, results, poolPc>>

dbVars == <<thumbnail_tests, test_videos, youtube_videos>>

svcVars == <<duration, transcript, viral, quota, cache, stripe>>

fnVars == <<scrape, fetch, ai, angles, bucket, svcVars>>

pipeVars == <<genPc, g, sh, sessions, thumbnail_tests, test_videos,
              youtube_videos, csv_log, usage, scrape, fetch, ai, angles, bucket,
              svcVars>>

vars == <<channel_handles, futures, order, results, poolPc, genPc, g, sh,
          sessions, thumbnail_tests, test_videos, youtube_videos, csv_log, usage,
          scrape, fetch, ai, angles, bucket,
          duration, transcript, viral, quota, cache, stripe>>

\* ------------------------------------------------------------------------
\* resolve_channels_parallel
\* ------------------------------------------------------------------------
\* the handles the model submits
HandleSamples ==
    { <<"@", "a">>,                                \* "@a"
      <<"b">>,                                     \* "b"
      <<>>,                                        \* ""
      <<" ">>,                                     \* " "
      YOUTUBE_COM_SLASH \o <<"@", "a">> }          \* "youtube.com/@a"

SeqsUpTo(S, n) == UNION { [1..k -> S] : k \in 0..n }

\* the result slot of a future that has not run yet
NoOutcome ==
    [raised |-> FALSE, handle |-> <<>>, channel_id |-> NoneId, url |-> NoneStr,
     success |-> FALSE]

\* a future_to_handle keyed by handle: a repeated handle is submitted once
SubmitAll_ByHandle(handles) ==
    LET firsts == SelectSeq([i \in 1..Len(handles) |-> i],
                            LAMBDA i : \A j \in 1..(i - 1) : handles[j] # handles[i])
    IN  [k \in 1..Len(firsts) |->
            [handle |-> handles[firsts[k]], state |-> "pending", yielded |-> FALSE,
             outcome |-> NoOutcome]]

\* lines 96-99: one future per element of channel_handles, duplicates included
SubmitAll(handles) ==
    [i \in 1..Len(handles) |->
        [handle |-> handles[i], state |-> "pending", yielded |-> FALSE,
         outcome |-> NoOutcome]]

\* the record of a failure that does not say which handle failed
FailedRecord_NoHandle(handle) ==
    [handle |-> NoneStr, channel_id |-> NoneId, url |-> NoneStr, success |-> FALSE]

\* lines 113-118: the record appended when future.result() raised
FailedRecord(handle) ==
    [handle |-> handle, channel_id |-> NoneId, url |-> NoneStr, success |-> FALSE]

\* lines 103-118: what the collecting loop appends for one completed future
CollectRecord(f) ==
    IF f.outcome.raised
    THEN FailedRecord(f.handle)
    ELSE [handle     |-> f.outcome.handle,
          channel_id |-> f.outcome.channel_id,
          url        |-> f.outcome.url,
          success    |-> f.outcome.success]

\* line 94-99: the executor is created and every task submitted
PoolSubmit ==
    /\ poolPc = "start"
    /\ futures' = SubmitAll(channel_handles)
    /\ order' = <<>>
    /\ results' = <<>>
    /\ poolPc' = "collect"
    /\ UNCHANGED <<channel_handles, pipeVars>>

\* a worker thread runs resolve_channel_handle for future i; the page answers
\* with any of the responses
WorkerRun(i) ==
    /\ poolPc = "collect"
    /\ i \in DOMAIN futures
    /\ futures[i].state = "pending"
    /\ \E resp \in Responses(UrlPath(RequestUrl(futures[i].handle))) :
          futures' = [futures EXCEPT ![i].state = "finished",
                         ![i].outcome = resolve_channel_handle(futures[i].handle, resp)]
    /\ UNCHANGED <<channel_handles, order, results, poolPc, pipeVars>>

\* lines 102-118: as_completed yields a finished future; its record is kept
Collect(i) ==
    /\ poolPc = "collect"
    /\ i \in DOMAIN futures
    /\ futures[i].state = "finished"
    /\ ~futures[i].yielded
    /\ futures' = [futures EXCEPT ![i].yielded = TRUE]
    /\ order' = Append(order, i)
    /\ results' = Append(results, CollectRecord(futures[i]))
    /\ UNCHANGED <<channel_handles, poolPc, pipeVars>>

\* line 120: every future was yielded, the with-block ends, results is returned
PoolReturn ==
    /\ poolPc = "collect"
    /\ \A i \in DOMAIN futures : futures[i].yielded
    /\ poolPc' = "returned"
    /\ UNCHANGED <<channel_handles, futures, order, results, pipeVars>>

\* ------------------------------------------------------------------------
\* The callers, the stores and their rows
\* ------------------------------------------------------------------------
\* most tests the store is let to hold
MaxTests == 1

Users == {"u1", "u2"}
\* user_id when optional_auth finds no session
Anonymous == "anon"

\* models/database.py: the free tier's tests_limit
tests_limit == 5

\* the lists AIService.get_channel_suggestions returns: never empty, and
\* each handle starts with "@"
SuggestionSamples ==
    { << <<"@", "a">> >>,
      << <<"@", "a">>, <<"@", "b">> >>,
      << <<"@", "a">>, <<"@", "a">> >> }

TestId(n) == [kind |-> "test", n |-> n]
SessionId(n) == [kind |-> "session", n |-> n]
UnknownId == [kind |-> "unknown", n |-> 0]

\* channel_name values that are not handles
YourChannel == <<"Your Channel">>
UnknownChannel == <<"Unknown">>

\* router.py:455-464: the youtube_videos row of the user's video of a test
UserVideoRow(test_id, user_id) ==
    [video_id         |-> [kind |-> "user_video", n |-> test_id],
     channel_id       |-> [tag |-> "user_channel", len |-> 0],
     view_count       |-> None,
     duration_seconds |-> None,
     is_short         |-> FALSE]

\* router.py:412-421: the youtube_videos row of a fetched video
YoutubeVideoRow(video) ==
    [video_id         |-> video.video_id,
     channel_id       |-> video.channel_id,
     view_count       |-> video.view_count,
     duration_seconds |-> video.duration_seconds,
     is_short         |-> is_shorts(video.duration_seconds, shorts_duration_threshold)]

\* upsert(rows, on_conflict="video_id")
Upsert(table, rows) ==
    { r \in table : \A n \in rows : n.video_id # r.video_id } \cup rows

\* router.py:523-535: the user's item of the display list
user_video_data ==
    [video_id         |-> [kind |-> "user_video", n |-> 0],
     channel_id       |-> [tag |-> "user_channel", len |-> 0],
     channel_name     |-> YourChannel,
     view_count       |-> None,
     duration_seconds |-> None,
     is_user_video    |-> TRUE]

NotShort(video) == ~is_shorts(video.duration_seconds, shorts_duration_threshold)

\* the rows numbered without leaving the user's position free
RECURSIVE CompetitorRows_NoSkip(_, _, _, _)
CompetitorRows_NoSkip(test_id, non_shorts, user_position, current_position) ==
    IF non_shorts = <<>> THEN {}
    ELSE { [test_id |-> test_id, video_id |-> Head(non_shorts).video_id,
            position |-> current_position, is_user_video |-> FALSE] }
         \cup CompetitorRows_NoSkip(test_id, Tail(non_shorts), user_position,
                                    current_position + 1)

\* router.py:484-508: the test_videos rows of an arrangement
RECURSIVE CompetitorRows(_, _, _, _)
CompetitorRows(test_id, non_shorts, user_position, current_position) ==
    IF non_shorts = <<>> THEN {}
    ELSE LET position == IF current_position = user_position
                         THEN current_position + 1
                         ELSE current_position
         IN  { [test_id |-> test_id, video_id |-> Head(non_shorts).video_id,
                position |-> position, is_user_video |-> FALSE] }
             \cup CompetitorRows(test_id, Tail(non_shorts), user_position, position + 1)

TestVideoInserts(test_id, non_shorts, user_position) ==
    CompetitorRows(test_id, non_shorts, user_position, 0)
    \cup { [test_id |-> test_id, video_id |-> [kind |-> "user_video", n |-> test_id],
            position |-> user_position, is_user_video |-> TRUE] }

\* ------------------------------------------------------------------------
\* auth_service.py
\* ------------------------------------------------------------------------
\* can_create_test: the stored function answers whether the user is under
\* the limit; a failed call counts as no
UnderLimit(user_id) == usage[user_id] < tests_limit

can_create_test(user_id, rpc_ok) == rpc_ok /\ UnderLimit(user_id)

\* ------------------------------------------------------------------------
\* generate_preview
\* ------------------------------------------------------------------------
\* no /shuffle call is being served
NoShuffle ==
    [session_id |-> UnknownId, user_id |-> Anonymous, status |-> 0,
     source |-> "none", store_reads |-> 0, all_videos |-> <<>>,
     competitor_videos |-> <<>>, user_position |-> 0, shuffled_videos |-> <<>>]

NoRequest ==
    [user_id |-> Anonymous, resolved_channels |-> <<>>, successful_channels |-> <<>>,
     all_videos |-> <<>>, fetcher_calls |-> <<>>, test_id |-> 0,
     non_shorts |-> <<>>, persisted_user_position |-> 0,
     display_videos |-> <<>>, user_position |-> 0, all_display_videos |-> <<>>,
     status |-> 0, detail |-> ""]

\* lines 240-300: authentication, the usage check, the AI's suggestions
GenStart ==
    /\ genPc \in {"idle", "done"}
    /\ poolPc = "off"
    /\ Len(thumbnail_tests) < MaxTests
    /\ \E user_id \in Users \cup {Anonymous}, rpc_ok \in BOOLEAN,
          suggestions \in SuggestionSamples :
          IF user_id = Anonymous
          THEN /\ g' = [NoRequest EXCEPT !.status = 200, !.detail = "Authentication Required"]
               /\ genPc' = "done"
               /\ UNCHANGED poolVars
          ELSE IF ~can_create_test(user_id, rpc_ok)
          THEN /\ g' = [NoRequest EXCEPT !.user_id = user_id, !.status = 200,
                                         !.detail = "Monthly Limit Reached"]
               /\ genPc' = "done"
               /\ UNCHANGED poolVars
          ELSE IF suggestions = <<>>
          THEN /\ g' = [NoRequest EXCEPT !.user_id = user_id, !.status = 500,
                           !.detail = "Failed to get channel suggestions from AI"]
               /\ genPc' = "done"
               /\ UNCHANGED poolVars
          ELSE /\ g' = [NoRequest EXCEPT !.user_id = user_id]
               /\ genPc' = "resolving"
               /\ channel_handles' = suggestions
               /\ poolPc' = "start"
               /\ UNCHANGED <<futures, order, results>>
    /\ sh' = NoShuffle
    /\ UNCHANGED <<sessions, dbVars, csv_log, usage, fnVars>>

Successful(ch) == ch.success

\* generate_preview giving up as soon as one handle fails to resolve
GenResolved_AllOrNothing ==
    /\ genPc = "resolving"
    /\ poolPc = "returned"
    /\ LET resolved_channels == results
           successful_channels == SelectSeq(resolved_channels, Successful)
       IN  IF successful_channels # resolved_channels
           THEN /\ g' = [g EXCEPT !.resolved_channels = resolved_channels,
                            !.status = 500,
                            !.detail = "Failed to resolve any channel IDs"]
                /\ genPc' = "done"
           ELSE /\ g' = [g EXCEPT !.resolved_channels = resolved_channels,
                            !.successful_channels = successful_channels]
                /\ genPc' = "resolved"
    /\ channel_handles' = <<>>
    /\ futures' = <<>>
    /\ order' = <<>>
    /\ results' = <<>>
    /\ poolPc' = "off"
    /\ UNCHANGED <<sh, sessions, dbVars, csv_log, usage, fnVars>>

\* lines 304-318: resolve_channels_parallel has returned
GenResolved ==
    /\ genPc = "resolving"
    /\ poolPc = "returned"
    /\ LET resolved_channels == results
           successful_channels == SelectSeq(resolved_channels, Successful)
       IN  IF successful_channels = <<>>
           THEN /\ g' = [g EXCEPT !.resolved_channels = resolved_channels,
                            !.status = 500,
                            !.detail = "Failed to resolve any channel IDs"]
                /\ genPc' = "done"
           ELSE /\ g' = [g EXCEPT !.resolved_channels = resolved_channels,
                            !.successful_channels = successful_channels]
                /\ genPc' = "resolved"
    /\ channel_handles' = <<>>
    /\ futures' = <<>>
    /\ order' = <<>>
    /\ results' = <<>>
    /\ poolPc' = "off"
    /\ UNCHANGED <<sh, sessions, dbVars, csv_log, usage, fnVars>>

\* lines 320-344: the videos of the resolved channels, and the audit log
GenFetch ==
    /\ genPc = "resolved"
    /\ \E apis \in [1..Len(g.successful_channels) -> ApiSamples] :
          LET fetched == get_videos_for_channels(g.successful_channels,
                                                 videos_per_channel, apis)
              all_videos == fetched.videos
          IN  IF all_videos = <<>>
              THEN /\ g' = [g EXCEPT !.fetcher_calls = fetched.calls,
                               !.status = 500,
                               !.detail = "Failed to fetch videos from channels"]
                   /\ genPc' = "done"
                   /\ UNCHANGED csv_log
              ELSE /\ g' = [g EXCEPT !.fetcher_calls = fetched.calls,
                               !.all_videos = all_videos]
                   /\ genPc' = "fetched"
                   /\ csv_log' = csv_log \cup
                          { all_videos[k].video_id : k \in DOMAIN all_videos }
    /\ UNCHANGED <<poolVars, sh, sessions, dbVars, usage, fnVars>>

\* lines 346-470: the test row, the video rows, the user's video row
GenSaveTest ==
    /\ genPc = "fetched"
    /\ LET test_id == Len(thumbnail_tests) + 1
       IN  /\ thumbnail_tests' = Append(thumbnail_tests,
                  [user_id |-> g.user_id, status |-> "completed",
                   total_videos_fetched |-> Len(g.all_videos)])
           /\ youtube_videos' =
                  Upsert(Upsert(youtube_videos,
                                { YoutubeVideoRow(g.all_videos[k]) : k \in DOMAIN g.all_videos }),
                         { UserVideoRow(test_id, g.user_id) })
           /\ g' = [g EXCEPT !.test_id = test_id, !.resolved_channels = <<>>,
                            !.successful_channels = <<>>, !.fetcher_calls = <<>>]
    /\ genPc' = "saved"
    /\ UNCHANGED <<poolVars, sh, sessions, test_videos, csv_log, usage, fnVars>>

\* lines 472-512: the arrangement that is persisted
GenSaveTestVideos ==
    /\ genPc = "saved"
    /\ \E non_shorts \in Shuffles(SelectSeq(g.all_videos, NotShort)) :
       \E user_position \in UserPositions(non_shorts) :
          /\ test_videos' = test_videos \cup
                 TestVideoInserts(g.test_id, non_shorts, user_position)
          /\ g' = [g EXCEPT !.non_shorts = non_shorts,
                            !.persisted_user_position = user_position]
    /\ genPc' = "persisted"
    /\ sh' = NoShuffle
    /\ UNCHANGED <<poolVars, sessions, thumbnail_tests, youtube_videos,
                   csv_log, usage, fnVars>>

\* lines 514-547: the display list
GenDisplay ==
    /\ genPc = "persisted"
    /\ \E display_videos \in Shuffles(SelectSeq(g.all_videos, NotShort)) :
       \E user_position \in UserPositions(display_videos) :
          g' = [g EXCEPT !.display_videos = display_videos,
                         !.user_position = user_position,
                         !.all_display_videos =
                             InsertAt(display_videos, user_position, user_video_data)]
    /\ genPc' = "displayed"
    /\ UNCHANGED <<poolVars, sh, sessions, dbVars, csv_log, usage, fnVars>>

\* lines 549-574: formatting, the session, the usage counter, the response.
\* The handler returns or raises: of its frame only the response is left.
GenRespond ==
    /\ genPc = "displayed"
    /\ IF format_videos_for_template(g.all_display_videos).raised
       THEN /\ g' = [NoRequest EXCEPT !.user_id = g.user_id, !.test_id = g.test_id,
                                      !.status = 500, !.detail = "Error"]
            /\ UNCHANGED <<sessions, usage>>
       ELSE /\ sessions' = [k \in DOMAIN sessions \cup {SessionId(g.test_id)} |->
                               IF k = SessionId(g.test_id)
                               THEN g.all_display_videos ELSE sessions[k]]
            /\ usage' = [usage EXCEPT ![g.user_id] = @ + 1]
            /\ g' = [NoRequest EXCEPT !.user_id = g.user_id, !.test_id = g.test_id,
                                      !.status = 303, !.detail = "redirect"]
    /\ genPc' = "done"
    /\ UNCHANGED <<poolVars, sh, dbVars, csv_log, fnVars>>

\* ------------------------------------------------------------------------
\* shuffle_results
\* ------------------------------------------------------------------------
\* .order("position"): the rows by ascending position
RECURSIVE OrderByPosition(_)
OrderByPosition(rows) ==
    IF rows = {} THEN <<>>
    ELSE LET first == CHOOSE r \in rows : \A o \in rows : r.position <= o.position
         IN  <<first>> \o OrderByPosition(rows \ {first})

\* select("*, youtube_videos(*)"): the video row joined to a test_videos row;
\* the empty set when there is none
JoinedVideo(tv) == { v \in youtube_videos : v.video_id = tv.video_id }

\* lines 664-676: the item built from one joined row
VideoFromRow(tv, vid) ==
    [video_id         |-> vid.video_id,
     channel_id       |-> vid.channel_id,
     channel_name     |-> IF tv.is_user_video THEN YourChannel ELSE UnknownChannel,
     view_count       |-> vid.view_count,
     duration_seconds |-> vid.duration_seconds,
     is_user_video    |-> tv.is_user_video]

\* lines 661-677: the list built from the rows of a test
RECURSIVE VideosFromRows(_)
VideosFromRows(rows) ==
    IF rows = <<>> THEN <<>>
    ELSE LET tv == Head(rows)
         IN  (IF JoinedVideo(tv) = {} THEN <<>>
              ELSE << VideoFromRow(tv, CHOOSE v \in JoinedVideo(tv) : TRUE) >>)
             \o VideosFromRows(Tail(rows))

\* lines 643-645: the test with this id that belongs to this user
OwnedTest(session_id, user_id) ==
    /\ session_id.kind = "test"
    /\ session_id.n \in DOMAIN thumbnail_tests
    /\ thumbnail_tests[session_id.n].user_id = user_id

TestVideoRows(session_id) ==
    { tv \in test_videos : session_id.kind = "test" /\ tv.test_id = session_id.n }

\* shuffle_results with the in-memory sessions only: a session that is not
\* in memory is not found
LoadVideos_MemoryOnly(mem, session_id, user_id) ==
    IF session_id \in DOMAIN mem
    THEN [status |-> IF mem[session_id] = <<>> THEN 404 ELSE 0,
          source |-> "memory", store_reads |-> 0,
          all_videos |-> mem[session_id]]
    ELSE [status |-> 404, source |-> "none", store_reads |-> 0, all_videos |-> <<>>]

\* lines 628-682: where all_videos comes from, mem being the sessions dict.
\* status 0: go on to shuffle
LoadVideos(mem, session_id, user_id) ==
    IF session_id \in DOMAIN mem
    THEN [status |-> IF mem[session_id] = <<>> THEN 404 ELSE 0,
          source |-> "memory", store_reads |-> 0,
          all_videos |-> mem[session_id]]
    ELSE IF user_id = Anonymous
    THEN [status |-> 401, source |-> "none", store_reads |-> 0, all_videos |-> <<>>]
    ELSE IF ~OwnedTest(session_id, user_id)
    THEN [status |-> 404, source |-> "none", store_reads |-> 1, all_videos |-> <<>>]
    ELSE IF TestVideoRows(session_id) = {}
    THEN [status |-> 404, source |-> "none", store_reads |-> 2, all_videos |-> <<>>]
    ELSE LET all_videos == VideosFromRows(OrderByPosition(TestVideoRows(session_id)))
         IN  [status |-> IF all_videos = <<>> THEN 404 ELSE 0,
              source |-> "store", store_reads |-> 2, all_videos |-> all_videos]

IsUserVideo(video) == video.is_user_video

\* a separation that leaves the user's item among the competitors
IsCompetitor_All(video) == TRUE

IsCompetitor(video) == ~video.is_user_video

\* lines 684-691: the last item flagged as the user's, if any
UserVideoOf(all_videos) ==
    LET flagged == SelectSeq(all_videos, IsUserVideo)
    IN  IF flagged = <<>> THEN <<>> ELSE <<flagged[Len(flagged)]>>

\* the session ids a caller may post
SessionIdSamples ==
    { TestId(n) : n \in 1..MaxTests } \cup { SessionId(1), UnknownId }

\* the whole handler
shuffle_results(session_id, user_id) ==
    LET loaded == LoadVideos(sessions, session_id, user_id)
        call == [NoShuffle EXCEPT !.session_id = session_id, !.user_id = user_id,
                    !.source = loaded.source, !.store_reads = loaded.store_reads,
                    !.all_videos = loaded.all_videos]
    IN  IF loaded.status # 0
        THEN /\ sh' = [call EXCEPT !.status = loaded.status]
        ELSE \E competitor_videos \in
                    Shuffles(SelectSeq(loaded.all_videos, IsCompetitor)) :
             \E user_position \in UserPositions(competitor_videos) :
                LET user_video == UserVideoOf(loaded.all_videos)
                    pos == IF user_video = <<>> THEN 0 ELSE user_position
                    shuffled_videos ==
                        IF user_video = <<>> THEN competitor_videos
                        ELSE InsertAt(competitor_videos, user_position, user_video[1])
                IN  sh' = [call EXCEPT
                             !.competitor_videos = competitor_videos,
                             !.user_position = pos,
                             !.shuffled_videos = shuffled_videos,
                             !.status =
                                 IF format_videos_for_template(shuffled_videos).raised
                                 THEN 500 ELSE 200]

\* a /shuffle that keeps the list it built as the session's list
Shuffle_StoresSession ==
    /\ genPc \in {"idle", "saved", "done"}
    /\ \E session_id \in SessionIdSamples, user_id \in Users \cup {Anonymous} :
          /\ shuffle_results(session_id, user_id)
          /\ sessions' = IF sh'.shuffled_videos = <<>> THEN sessions
                         ELSE [k \in DOMAIN sessions \cup {session_id} |->
                                 IF k = session_id THEN sh'.shuffled_videos
                                 ELSE sessions[k]]
    /\ UNCHANGED <<poolVars, genPc, g, dbVars, csv_log, usage, fnVars>>

\* A request to /shuffle.  It reads the stores and writes none, so it commutes
\* with the steps of generate_preview that write none either: it is taken
\* between the steps that do.
Shuffle ==
    /\ genPc \in {"idle", "saved", "done"}
    /\ \E session_id \in SessionIdSamples, user_id \in Users \cup {Anonymous} :
          shuffle_results(session_id, user_id)
    /\ UNCHANGED <<poolVars, genPc, g, sessions, dbVars, csv_log, usage, fnVars>>

\* ------------------------------------------------------------------------
\* Specifications
\* ------------------------------------------------------------------------
InitStores ==
    /\ genPc = "idle"
    /\ g = NoRequest
    /\ sh = NoShuffle
    /\ sessions = << >>
    /\ thumbnail_tests = <<>>
    /\ test_videos = {}
    /\ youtube_videos = {}
    /\ csv_log = {}
    /\ usage = [u \in Users |-> 0]

\* no call of the service is in progress
NoCall == [pc |-> "none"]

\* none of the later services has been called
IdleServices ==
    /\ duration = NoCall
    /\ transcript = NoCall
    /\ viral = NoCall
    /\ quota = NoCall
    /\ cache = NoCall
    /\ stripe = NoCall

\* the application: requests to /generate and /shuffle
Init ==
    /\ channel_handles = <<>>
    /\ futures = <<>>
    /\ order = <<>>
    /\ results = <<>>
    /\ poolPc = "off"
    /\ InitStores
    /\ IdleServices
    /\ scrape = NoCall
    /\ fetch = NoCall
    /\ ai = NoCall
    /\ angles = NoCall
    /\ bucket = NoCall

Next ==
    \/ GenStart
    \/ PoolSubmit
    \/ \E i \in 1..(MaxHandles + 1) : WorkerRun(i)
    \/ \E i \in 1..(MaxHandles + 1) : Collect(i)
    \/ PoolReturn
    \/ GenResolved
    \/ GenFetch
    \/ GenSaveTest
    \/ GenSaveTestVideos
    \/ GenDisplay
    \/ GenRespond
    \/ Shuffle

Spec == Init /\ [][Next]_vars

\* a call of resolve_channels_parallel on any list of handles
InitResolver ==
    /\ channel_handles \in SeqsUpTo(HandleSamples, MaxHandles)
    /\ futures = <<>>
    /\ order = <<>>
    /\ results = <<>>
    /\ poolPc = "start"
    /\ InitStores
    /\ IdleServices
    /\ scrape = NoCall
    /\ fetch = NoCall
    /\ ai = NoCall
    /\ angles = NoCall
    /\ bucket = NoCall

PoolNext ==
    \/ PoolSubmit
    \/ \E i \in 1..(MaxHandles + 1) : WorkerRun(i)
    \/ \E i \in 1..(MaxHandles + 1) : Collect(i)
    \/ PoolReturn

SpecResolver == InitResolver /\ [][PoolNext]_vars

\* ------------------------------------------------------------------------
\* A call of the channel resolver on one input
\* ------------------------------------------------------------------------
\* a stable channel id on its own: "UC" and 22 more characters
BareId == <<"U", "C">> \o [k \in 1..22 |-> "x"]

\* viral_video_service.py:129: what a caller takes for a stable channel id
IsBareId(channel_input) ==
    /\ StartsWith(channel_input, <<"U", "C">>)
    /\ Len(channel_input) = 24

\* the inputs the resolver is called with
InputSamples ==
    { <<"@", "a">>,                                          \* "@a"
      <<"a">>,                                               \* "a"
      <<" ", "a", " ">>,                                     \* " a "
      <<" ", "@", "b">>,                                     \* " @b"
      <<>>,                                                  \* ""
      <<" ", " ">>,                                          \* "  "
      BareId,                                                \* "UCxxx..."
      YOUTUBE_COM_SLASH \o <<"@", "a">>,                     \* "youtube.com/@a"
      URL_PREFIX \o <<"@", "b">> \o QMARK \o <<"s">>,        \* ".../@b?s"
      URL_PREFIX \o CHANNEL_SLASH \o BareId,                 \* ".../channel/UCxxx..."
      URL_PREFIX \o C_SLASH \o <<"a">>,                      \* ".../c/a"
      YOUTU_BE \o <<"/", "v">> }                             \* "youtu.be/v"

\* an id-like token longer than a stable id
IdLong == [tag |-> "UCl", len |-> 30]

\* what the GET can answer: any status, any ids embedded in the text
PageSamples ==
    [status : {200, 404, 0},
     link   : {NoneId, IdA, IdShort, IdLong},
     ext    : {NoneId, IdB, IdShort}]

\* lines 22-43: the input is normalized into the request url
ScrapeNormalize ==
    /\ scrape.pc = "ready"
    /\ \E channel_input \in InputSamples :
          scrape' = [pc |-> "normalized", channel_input |-> channel_input,
                     url |-> RequestUrl(channel_input)]
    /\ UNCHANGED <<poolVars, genPc, g, sh, sessions, dbVars, csv_log, usage,
                   fetch, ai, angles, bucket, svcVars>>

\* lines 45-78: the request, the search of the answer, the returned dict
ScrapeRequest ==
    /\ scrape.pc = "normalized"
    /\ \E resp \in PageSamples :
          LET r == resolve_channel_handle(scrape.channel_input, resp)
          IN  scrape' = [pc |-> "returned", channel_input |-> scrape.channel_input,
                         url |-> scrape.url, resp |-> resp, raised |-> r.raised,
                         channel_id |-> r.channel_id, returned_url |-> r.url,
                         success |-> r.success]
    /\ UNCHANGED <<poolVars, genPc, g, sh, sessions, dbVars, csv_log, usage,
                   fetch, ai, angles, bucket, svcVars>>

InitScrape ==
    /\ channel_handles = <<>>
    /\ futures = <<>>
    /\ order = <<>>
    /\ results = <<>>
    /\ poolPc = "off"
    /\ InitStores
    /\ IdleServices
    /\ scrape = [pc |-> "ready"]
    /\ fetch = NoCall
    /\ ai = NoCall
    /\ angles = NoCall
    /\ bucket = NoCall

ScrapeNext ==
    \/ ScrapeNormalize
    \/ ScrapeRequest

SpecScrape == InitScrape /\ [][ScrapeNext]_vars

\* ------------------------------------------------------------------------
\* ai_service.py
\* ------------------------------------------------------------------------
\* The reply of a provider, by what json.loads makes of its text once the
\* markdown fences are removed (lines 126-131):
\*   "error"      the API call or reading the reply raised
\*   "json_list"  a JSON array; items: its elements, a string as the
\*                sequence of its characters, anything else as NotAString
\*   "json_other" JSON, but not an array; text: its characters
\*   "text"       not JSON (JSONDecodeError); text: its characters
NotAString == <<"<not a str>">>

\* [\w-]: the characters of a handle
WordChars == {"a", "b", "c", "x", "1", "_", "-"}

\* the last index of the run of handle characters that starts at i
RECURSIVE RunEnd(_, _)
RunEnd(text, i) ==
    IF i + 1 <= Len(text) /\ text[i + 1] \in WordChars
    THEN RunEnd(text, i + 1)
    ELSE i

\* line 147: re.findall(r'@[\w-]+', text) from index i on
RECURSIVE FindHandles(_, _)
FindHandles(text, i) ==
    IF i > Len(text) THEN <<>>
    ELSE IF text[i] = "@" /\ i + 1 <= Len(text) /\ text[i + 1] \in WordChars
         THEN <<SubSeq(text, i, RunEnd(text, i + 1))>>
              \o FindHandles(text, RunEnd(text, i + 1) + 1)
         ELSE FindHandles(text, i + 1)

\* text.split(',')
RECURSIVE SplitOnComma(_)
SplitOnComma(text) ==
    IF Contains(text, <<",">>)
    THEN <<SplitFirst(text, <<",">>)>>
         \o SplitOnComma(SubSeq(text, Min(Occurrences(text, <<",">>)) + 1, Len(text)))
    ELSE <<text>>

\* s[:n]
Take(s, n) == SubSeq(s, 1, Smaller(n, Len(s)))

\* the strings of the array kept as the model wrote them
RECURSIVE CleanedItems_NoPrefix(_)
CleanedItems_NoPrefix(items) ==
    IF items = <<>> THEN <<>>
    ELSE (IF Head(items) = NotAString THEN <<>> ELSE <<Strip(Head(items))>>)
         \o CleanedItems_NoPrefix(Tail(items))

\* lines 134-140: the strings of the array, stripped and prefixed
RECURSIVE CleanedItems(_)
CleanedItems(items) ==
    IF items = <<>> THEN <<>>
    ELSE (IF Head(items) = NotAString THEN <<>>
          ELSE LET ch == Strip(Head(items))
               IN  <<IF StartsWith(ch, AT) THEN ch ELSE AT \o ch>>)
         \o CleanedItems(Tail(items))

NotBracketOrQuote(c) == c \notin {"\"", "[", "]"}

\* lines 153-161: the parts of a comma-separated text
RECURSIVE CommaChannels(_)
CommaChannels(parts) ==
    IF parts = <<>> THEN <<>>
    ELSE LET part == Strip(SelectSeq(Strip(Head(parts)), NotBracketOrQuote))
         IN  (IF part # <<>> /\ ~StartsWith(part, <<"{">>)
              THEN <<IF StartsWith(part, AT) THEN part ELSE AT \o part>>
              ELSE <<>>)
             \o CommaChannels(Tail(parts))

\* _parse_channel_response(text, expected_count)
parse_channel_response(reply, expected_count) ==
    IF reply.kind = "json_list"
    THEN Take(CleanedItems(reply.items), expected_count)
    ELSE LET handles == FindHandles(reply.text, 1)
         IN  IF handles # <<>>
             THEN Take(handles, expected_count)
             ELSE IF Contains(reply.text, <<",">>)
                       /\ CommaChannels(SplitOnComma(reply.text)) # <<>>
                  THEN Take(CommaChannels(SplitOnComma(reply.text)), expected_count)
                  ELSE <<>>

\* _fallback_channels(num_channels)
fallback_channels(num_channels) ==
    Take(<< <<"@", "MrBeast">>, <<"@", "Veritasium">>, <<"@", "ThePrimeagen">>,
            <<"@", "mkbhd">>, <<"@", "LinusTechTips">>, <<"@", "3Blue1Brown">>,
            <<"@", "vsauce">>, <<"@", "CGPGrey">>, <<"@", "TomScottGo">>,
            <<"@", "Fireship">> >>, num_channels)

\* config.py: max_channels, the num_channels generate_preview asks for
max_channels == 10

\* the elements of a JSON array in a reply
ItemSamples ==
    { <<"@", "a">>, <<"b">>, <<" ", "@", "a", " ">>, <<>>, NotAString }

\* longest JSON array in a reply
MaxItems == 2

TextSamples ==
    { <<"@", "a", " ", "@", "b">>,                 \* "@a @b"
      <<"s", "e", "e", " ", "@", "a", "-", "1", ".">>,  \* "see @a-1."
      <<"a", ",", " ", "b">>,                      \* "a, b"
      <<"[", "a", ",", "\"", "b", "\"", "]">>,      \* '[a,"b"]'
      <<"{", "k", "}", ",", " ">>,                 \* "{k}, "
      <<"@", ",", "@">>,                           \* "@,@"
      <<"n", "o", "n", "e">>,                      \* "none"
      <<>> }                                       \* ""

JsonOtherSamples ==
    { <<"{", "\"", "k", "\"", ":", "\"", "@", "a", "\"", "}">>,   \* {"k":"@a"}
      <<"{", "\"", "k", "\"", ":", "1", "}">>,                    \* {"k":1}
      <<"7">> }                                                   \* 7

Replies ==
    { [kind |-> "error", items |-> <<>>, text |-> <<>>] }
    \cup { [kind |-> "json_list", items |-> items, text |-> <<>>] :
              items \in SeqsUpTo(ItemSamples, MaxItems) }
    \cup { [kind |-> "json_other", items |-> <<>>, text |-> text] :
              text \in JsonOtherSamples }
    \cup { [kind |-> "text", items |-> <<>>, text |-> text] : text \in TextSamples }

NoReply == [kind |-> "none", items |-> <<>>, text |-> <<>>]

\* lines 33-62: the call, with whether a Claude client was configured
SuggestStart ==
    /\ ai.pc = "ready"
    /\ \E num_channels \in {1, 2, max_channels, max_channels + 1},
          claude_client \in BOOLEAN :
          ai' = [pc |-> "gemini", num_channels |-> num_channels,
                 claude_client |-> claude_client, gemini |-> NoReply,
                 claude |-> NoReply, channels |-> <<>>, source |-> "none"]
    /\ UNCHANGED <<poolVars, genPc, g, sh, sessions, dbVars, csv_log, usage,
                   scrape, fetch, angles, bucket, svcVars>>

\* lines 64-78: Gemini
TryGemini ==
    /\ ai.pc = "gemini"
    /\ \E reply \in Replies :
          LET channels == IF reply.kind = "error" THEN <<>>
                          ELSE parse_channel_response(reply, ai.num_channels)
          IN  IF channels # <<>>
              THEN ai' = [ai EXCEPT !.pc = "returned", !.gemini = reply,
                                    !.channels = channels, !.source = "gemini"]
              ELSE ai' = [ai EXCEPT !.pc = "claude", !.gemini = reply]
    /\ UNCHANGED <<poolVars, genPc, g, sh, sessions, dbVars, csv_log, usage,
                   scrape, fetch, angles, bucket, svcVars>>

\* lines 80-88: Claude, if there is a client
TryClaude ==
    /\ ai.pc = "claude"
    /\ IF ~ai.claude_client
       THEN ai' = [ai EXCEPT !.pc = "fallback"]
       ELSE \E reply \in Replies :
               LET channels == IF reply.kind = "error" THEN <<>>
                               ELSE parse_channel_response(reply, ai.num_channels)
               IN  IF channels # <<>>
                   THEN ai' = [ai EXCEPT !.pc = "returned", !.claude = reply,
                                         !.channels = channels, !.source = "claude"]
                   ELSE ai' = [ai EXCEPT !.pc = "fallback", !.claude = reply]
    /\ UNCHANGED <<poolVars, genPc, g, sh, sessions, dbVars, csv_log, usage,
                   scrape, fetch, angles, bucket, svcVars>>

\* lines 90-92: the hardcoded list
SuggestFallback ==
    /\ ai.pc = "fallback"
    /\ ai' = [ai EXCEPT !.pc = "returned",
                        !.channels = fallback_channels(ai.num_channels),
                        !.source = "fallback"]
    /\ UNCHANGED <<poolVars, genPc, g, sh, sessions, dbVars, csv_log, usage,
                   scrape, fetch, angles, bucket, svcVars>>

InitSuggest ==
    /\ channel_handles = <<>>
    /\ futures = <<>>
    /\ order = <<>>
    /\ results = <<>>
    /\ poolPc = "off"
    /\ InitStores
    /\ IdleServices
    /\ scrape = NoCall
    /\ fetch = NoCall
    /\ ai = [pc |-> "ready"]
    /\ angles = NoCall
    /\ bucket = NoCall

SuggestNext ==
    \/ SuggestStart
    \/ TryGemini
    \/ TryClaude
    \/ SuggestFallback

SpecSuggest == InitSuggest /\ [][SuggestNext]_vars

\* ------------------------------------------------------------------------
\* angle_generator_service.py
\* ------------------------------------------------------------------------
\* An element of the JSON array Claude replies: an object, by the set of its
\* keys, or a number.
RequiredKeys == {"angle_name", "core_hook", "key_differentiator"}
AllKeys == RequiredKeys \cup {"target_emotion", "estimated_appeal"}

AngleSamples ==
    { [type |-> "dict", keys |-> AllKeys],
      [type |-> "dict", keys |-> RequiredKeys],
      [type |-> "dict", keys |-> {"angle_name", "key_differentiator"}],
      [type |-> "number", keys |-> {}] }

\* longest JSON array in Claude's reply
MaxAngles == 6

\* line 162: all(k in angle for k in [...])
HasRequiredKeys(angle) == RequiredKeys \subseteq angle.keys

IsNumber(angle) == angle.type = "number"

\* _parse_angles_response.  The reply is "json_list" with its elements,
\* "json_other" (JSON, not an array) or "text" (not JSON).  `k in angle`
\* raises TypeError on a number, which the last handler turns into [].
parse_angles_response(reply) ==
    IF reply.kind = "json_list" /\ Len(reply.items) >= 3
    THEN LET valid_angles == SelectSeq(reply.items, HasRequiredKeys)
         IN  IF SelectSeq(reply.items, IsNumber) # <<>>
             THEN <<>>
             ELSE Take(valid_angles, 5)
    ELSE <<>>

\* _get_fallback_angles: three angles with all five keys
get_fallback_angles ==
    << [type |-> "dict", keys |-> AllKeys, angle_name |-> "Deep Dive Analysis"],
       [type |-> "dict", keys |-> AllKeys, angle_name |-> "Beginner-Friendly Version"],
       [type |-> "dict", keys |-> AllKeys, angle_name |-> "Contrarian Perspective"] >>

AngleReplies ==
    { [kind |-> "error", items |-> <<>>],
      [kind |-> "text", items |-> <<>>],
      [kind |-> "json_other", items |-> <<>>] }
    \cup { [kind |-> "json_list", items |-> items] :
              items \in SeqsUpTo(AngleSamples, MaxAngles) }

\* generate_angles(video_data, profile, transcript)
generate_angles(reply) ==
    IF reply.kind = "error"
    THEN [source |-> "fallback", angles |-> get_fallback_angles]
    ELSE IF parse_angles_response(reply) # <<>>
         THEN [source |-> "parsed", angles |-> parse_angles_response(reply)]
         ELSE [source |-> "fallback", angles |-> get_fallback_angles]

GenerateAngles ==
    /\ angles.pc = "ready"
    /\ \E reply \in AngleReplies :
          angles' = [pc |-> "returned", reply |-> reply,
                     source |-> generate_angles(reply).source,
                     result |-> generate_angles(reply).angles]
    /\ UNCHANGED <<poolVars, genPc, g, sh, sessions, dbVars, csv_log, usage,
                   scrape, fetch, ai, bucket, svcVars>>

InitAngles ==
    /\ channel_handles = <<>>
    /\ futures = <<>>
    /\ order = <<>>
    /\ results = <<>>
    /\ poolPc = "off"
    /\ InitStores
    /\ IdleServices
    /\ scrape = NoCall
    /\ fetch = NoCall
    /\ ai = NoCall
    /\ angles = [pc |-> "ready"]
    /\ bucket = NoCall

AnglesNext == GenerateAngles

SpecAngles == InitAngles /\ [][AnglesNext]_vars

\* ------------------------------------------------------------------------
\* viral_video_service.py: calculate_view_bucket
\* ------------------------------------------------------------------------
\* calculate_view_bucket with its bounds taken as exclusive
calculate_view_bucket_Exclusive(view_count) ==
    IF view_count > 1000000 THEN "1M+"
    ELSE IF view_count > 100000 THEN "100k-1M"
    ELSE IF view_count > 50000 THEN "50-100k"
    ELSE IF view_count > 10000 THEN "10-50k"
    ELSE IF view_count > 5000 THEN "5-10k"
    ELSE "under-5k"

calculate_view_bucket(view_count) ==
    IF view_count >= 1000000 THEN "1M+"
    ELSE IF view_count >= 100000 THEN "100k-1M"
    ELSE IF view_count >= 50000 THEN "50-100k"
    ELSE IF view_count >= 10000 THEN "10-50k"
    ELSE IF view_count >= 5000 THEN "5-10k"
    ELSE "under-5k"

\* how far around each tier bound the view counts are taken
ViewWindow == 10

\* the view counts of the calls: those within ViewWindow of a tier bound,
\* and the counts the tests use
ViewSamples ==
    { v \in UNION { (b - ViewWindow)..(b + ViewWindow) :
                      b \in {0, 5000, 10000, 50000, 100000, 1000000} } : v >= 0 }
    \cup {2000, 7500, 25000, 75000, 500000, 1500000}

CalculateBucket ==
    /\ bucket.pc = "ready"
    /\ \E view_count \in ViewSamples :
          bucket' = [pc |-> "returned", view_count |-> view_count,
                     result |-> calculate_view_bucket(view_count)]
    /\ UNCHANGED <<poolVars, genPc, g, sh, sessions, dbVars, csv_log, usage,
                   scrape, fetch, ai, angles, svcVars>>

InitBucket ==
    /\ channel_handles = <<>>
    /\ futures = <<>>
    /\ order = <<>>
    /\ results = <<>>
    /\ poolPc = "off"
    /\ InitStores
    /\ IdleServices
    /\ scrape = NoCall
    /\ fetch = NoCall
    /\ ai = NoCall
    /\ angles = NoCall
    /\ bucket = [pc |-> "ready"]

BucketNext == CalculateBucket

SpecBucket == InitBucket /\ [][BucketNext]_vars

\* ------------------------------------------------------------------------
\* A call of the video fetcher
\* ------------------------------------------------------------------------
\* longest channel list handed to get_videos_for_channels
MaxChannels == 3

IdC == [tag |-> "UCc", len |-> 24]

\* records of resolve_channels_parallel: two channels with uploads, one
\* without, and a handle that did not resolve
ChannelSamples ==
    { [handle |-> <<"@", "a">>, channel_id |-> IdA,
       url |-> URL_PREFIX \o <<"@", "a">>, success |-> TRUE],
      [handle |-> <<"@", "b">>, channel_id |-> IdB,
       url |-> URL_PREFIX \o <<"@", "b">>, success |-> TRUE],
      [handle |-> <<"@", "c">>, channel_id |-> IdC,
       url |-> URL_PREFIX \o <<"@", "c">>, success |-> TRUE],
      [handle |-> <<"@", "x">>, channel_id |-> NoneId,
       url |-> URL_PREFIX \o <<"@", "x">>, success |-> FALSE] }

\* every way the three API calls of one get_recent_videos can go
FetchApis ==
    [info : BOOLEAN, playlist : BOOLEAN, details : BOOLEAN,
     omitted : SUBSET (1..videos_per_channel), assembled : 0..videos_per_channel]

\* get_recent_videos(channel_id, channel_name, max_results)
RecentCall ==
    /\ fetch.pc = "ready"
    /\ \E channel \in { c \in ChannelSamples : c.success },
          max_results \in 1..videos_per_channel, api \in FetchApis :
          fetch' = [pc |-> "recent", channel_id |-> channel.channel_id,
                    channel_name |-> channel.handle, max_results |-> max_results,
                    api |-> api,
                    videos |-> get_recent_videos(channel.channel_id, channel.handle,
                                                 max_results, api)]
    /\ UNCHANGED <<poolVars, genPc, g, sh, sessions, dbVars, csv_log, usage,
                   scrape, ai, angles, bucket, svcVars>>

\* get_videos_for_channels(channel_data, videos_per_channel)
ChannelsCall ==
    /\ fetch.pc = "ready"
    /\ \E channel_data \in SeqsUpTo(ChannelSamples, MaxChannels) :
       \E apis \in [1..Len(channel_data) -> ApiSamples] :
          LET fetched == get_videos_for_channels(channel_data, videos_per_channel, apis)
          IN  fetch' = [pc |-> "channels", channel_data |-> channel_data,
                        apis |-> apis, videos |-> fetched.videos,
                        calls |-> fetched.calls]
    /\ UNCHANGED <<poolVars, genPc, g, sh, sessions, dbVars, csv_log, usage,
                   scrape, ai, angles, bucket, svcVars>>

InitFetcher ==
    /\ channel_handles = <<>>
    /\ futures = <<>>
    /\ order = <<>>
    /\ results = <<>>
    /\ poolPc = "off"
    /\ InitStores
    /\ IdleServices
    /\ scrape = NoCall
    /\ fetch = [pc |-> "ready"]
    /\ ai = NoCall
    /\ angles = NoCall
    /\ bucket = NoCall

FetcherNext ==
    \/ RecentCall
    \/ ChannelsCall

SpecFetcher == InitFetcher /\ [][FetcherNext]_vars

\* ------------------------------------------------------------------------
\* The services below are called one at a time on an idle platform
\* ------------------------------------------------------------------------
appVars == <<poolVars, genPc, g, sh, sessions, dbVars, csv_log, usage,
             scrape, fetch, ai, angles, bucket>>

IdlePlatform ==
    /\ channel_handles = <<>>
    /\ futures = <<>>
    /\ order = <<>>
    /\ results = <<>>
    /\ poolPc = "off"
    /\ InitStores
    /\ scrape = NoCall
    /\ fetch = NoCall
    /\ ai = NoCall
    /\ angles = NoCall
    /\ bucket = NoCall

\* ------------------------------------------------------------------------
\* helpers.py: a call of parse_iso_duration
\* ------------------------------------------------------------------------
\* the components a duration text may carry, each with the number it writes
HourSamples ==
    { [text |-> <<>>, value |-> 0],
      [text |-> <<"0", "H">>, value |-> 0],
      [text |-> <<"1", "H">>, value |-> 1],
      [text |-> <<"1", "2", "H">>, value |-> 12] }

MinuteSamples ==
    { [text |-> <<>>, value |-> 0],
      [text |-> <<"0", "M">>, value |-> 0],
      [text |-> <<"5", "M">>, value |-> 5],
      [text |-> <<"0", "5", "M">>, value |-> 5],
      [text |-> <<"6", "1", "M">>, value |-> 61] }

SecondSamples ==
    { [text |-> <<>>, value |-> 0],
      [text |-> <<"0", "S">>, value |-> 0],
      [text |-> <<"7", "S">>, value |-> 7],
      [text |-> <<"3", "0", "S">>, value |-> 30],
      [text |-> <<"1", "0", "0", "S">>, value |-> 100] }

\* the durations PT[h H][m M][s S]
IsoSamples ==
    { [form |-> "iso", text |-> <<"P", "T">> \o h.text \o m.text \o sec.text,
       hours |-> h.value, minutes |-> m.value, seconds |-> sec.value] :
      h \in HourSamples, m \in MinuteSamples, sec \in SecondSamples }

\* None, the empty string and texts the pattern does not match at their start:
\* "abc", "P1DT2H", "1H30M", "T5M", "pt5s", " PT5S"
UnmatchedSamples ==
    { [form |-> "unmatched", text |-> t, hours |-> 0, minutes |-> 0, seconds |-> 0] :
      t \in { NoneStr, <<>>, <<"a", "b", "c">>,
              <<"P", "1", "D", "T", "2", "H">>,
              <<"1", "H", "3", "0", "M">>,
              <<"T", "5", "M">>,
              <<"p", "t", "5", "s">>,
              <<" ", "P", "T", "5", "S">> } }

\* texts the pattern matches at their start and that go on after the match:
\* "PT1H30", "PT5S10M", "PT30M1H", "PT1.5S", "PT5X", "PT5M "
RemainderSamples ==
    { [form |-> "remainder", text |-> t, hours |-> 0, minutes |-> 0, seconds |-> 0] :
      t \in { <<"P", "T", "1", "H", "3", "0">>,
              <<"P", "T", "5", "S", "1", "0", "M">>,
              <<"P", "T", "3", "0", "M", "1", "H">>,
              <<"P", "T", "1", ".", "5", "S">>,
              <<"P", "T", "5", "X">>,
              <<"P", "T", "5", "M", " ">> } }

DurationSamples == IsoSamples \cup UnmatchedSamples \cup RemainderSamples

\* parse_iso_duration(duration_iso), lines 11-32
ParseDuration ==
    /\ duration.pc = "ready"
    /\ \E d \in DurationSamples :
          duration' = [pc |-> "returned", duration_iso |-> d,
                       result |-> parse_iso_duration(d.text)]
    /\ UNCHANGED <<appVars, transcript, viral, quota, cache, stripe>>

InitDuration ==
    /\ IdlePlatform
    /\ duration = [pc |-> "ready"]
    /\ transcript = NoCall
    /\ viral = NoCall
    /\ quota = NoCall
    /\ cache = NoCall
    /\ stripe = NoCall

DurationNext == ParseDuration

SpecDuration == InitDuration /\ [][DurationNext]_vars

\* ------------------------------------------------------------------------
\* transcript_service.py
\* ------------------------------------------------------------------------
\* video ids: one with a row in viral_videos, one that may have none
TranscriptVideos == {"vidA", "vidB"}

TextA == <<"A">>
TextB == <<"B">>

\* `if x:` on an optional string
Truthy(text) == text # NoneStr /\ text # <<>>

\* what the actor's dataset can yield, joined: nothing, '' or a text
ApifyAnswers == {NoneStr, <<>>, TextA, TextB}

\* get_transcript_from_db(video_id): read_ok is FALSE when the query raises
get_transcript_from_db(db, video_id, read_ok) ==
    IF ~read_ok THEN NoneStr
    ELSE IF db[video_id].row /\ Truthy(db[video_id].transcript)
         THEN db[video_id].transcript
         ELSE NoneStr

\* save_transcript(video_id, transcript): update ... eq('video_id', video_id)
\* changes the row if there is one; write_ok is FALSE when the query raises
save_transcript(db, video_id, text, write_ok) ==
    IF write_ok /\ db[video_id].row
    THEN [db EXCEPT ![video_id].transcript = text]
    ELSE db

\* fetch_transcript(video_id, force_refresh), lines 139-168
fetch_transcript(db, video_id, force_refresh, read_ok, answer, write_ok) ==
    LET existing_transcript ==
            IF force_refresh THEN NoneStr
            ELSE get_transcript_from_db(db, video_id, read_ok)
    IN  IF Truthy(existing_transcript)
        THEN [result |-> existing_transcript, read |-> TRUE,
              provider_called |-> FALSE, saved |-> FALSE, db |-> db]
        ELSE IF Truthy(answer)
             THEN [result |-> answer, read |-> ~force_refresh,
                   provider_called |-> TRUE, saved |-> write_ok,
                   db |-> save_transcript(db, video_id, answer, write_ok)]
             ELSE [result |-> NoneStr, read |-> ~force_refresh,
                   provider_called |-> TRUE, saved |-> FALSE, db |-> db]

\* the states of viral_videos a call can find: a row for vidA with or
\* without a transcript, a row or none for vidB
TranscriptStores ==
    { [v \in TranscriptVideos |->
          IF v = "vidA" THEN [row |-> TRUE, transcript |-> a]
          ELSE [row |-> b, transcript |-> NoneStr]] :
      a \in {NoneStr, TextA}, b \in BOOLEAN }

\* a call of fetch_transcript; `returned` keeps, for each video, the
\* transcript the last call that returned one gave
FetchTranscript ==
    /\ transcript.pc \in {"ready", "returned"}
    /\ \E video_id \in TranscriptVideos, force_refresh \in BOOLEAN,
          read_ok \in BOOLEAN, answer \in ApifyAnswers, write_ok \in BOOLEAN :
          LET r == fetch_transcript(transcript.db, video_id, force_refresh,
                                    read_ok, answer, write_ok)
          IN  transcript' =
                [pc |-> "returned", db |-> r.db,
                 returned |-> IF Truthy(r.result)
                              THEN [transcript.returned EXCEPT ![video_id] = r.result]
                              ELSE transcript.returned,
                 call |-> [video_id |-> video_id, force_refresh |-> force_refresh,
                           stored_before |->
                               IF transcript.db[video_id].row
                               THEN transcript.db[video_id].transcript ELSE NoneStr,
                           returned_before |-> transcript.returned[video_id],
                           row |-> transcript.db[video_id].row,
                           read_ok |-> read_ok \/ ~r.read,
                           write_ok |-> write_ok,
                           provider_called |-> r.provider_called,
                           saved |-> r.saved,
                           result |-> r.result]]
    /\ UNCHANGED <<appVars, duration, viral, quota, cache, stripe>>

InitTranscript ==
    /\ IdlePlatform
    /\ duration = NoCall
    /\ \E db \in TranscriptStores :
          transcript = [pc |-> "ready", db |-> db,
                        returned |-> [v \in TranscriptVideos |-> NoneStr],
                        call |-> NoCall]
    /\ viral = NoCall
    /\ quota = NoCall
    /\ cache = NoCall
    /\ stripe = NoCall

TranscriptNext == FetchTranscript

SpecTranscript == InitTranscript /\ [][TranscriptNext]_vars

\* ------------------------------------------------------------------------
\* viral_video_service.py: scrape_channel
\* ------------------------------------------------------------------------
video_min_duration == 300
max_videos_per_channel == 100

\* the inputs scrape_channel is called with, each with the channel it names:
\* a channel id, two handles, the empty input
ViralInputs ==
    { [text |-> BareId, channel |-> IdA],
      [text |-> <<"@", "a">>, channel |-> IdA],
      [text |-> <<"@", "b">>, channel |-> IdB],
      [text |-> <<>>, channel |-> NoneId] }

\* what the page of a channel answers: its id as a link, its id as
\* externalId, an error status, no answer
ViralPages(channel) ==
    { [status |-> 200, link |-> channel, ext |-> NoneId],
      [status |-> 200, link |-> NoneId, ext |-> channel],
      [status |-> 404, link |-> NoneId, ext |-> NoneId],
      [status |-> 0, link |-> NoneId, ext |-> NoneId] }

\* a row of viral_videos
ViralRow(video, channel_id, channel_name, scraped_at) ==
    [video_id         |-> video.video_id,
     channel_id       |-> channel_id,
     channel_name     |-> channel_name,
     view_count       |-> video.view_count,
     duration_seconds |-> video.duration_seconds,
     view_bucket      |-> calculate_view_bucket(video.view_count),
     scraped_at       |-> scraped_at]

\* rows of an earlier scrape: the long video of channel UCa with the view
\* count it had then, a video of channel UCb that is no longer listed
StoredRows(channel) ==
    IF channel = IdA
    THEN { [video_id |-> Vid(2), channel_id |-> IdA,
            channel_name |-> <<"title of", "UCa">>, view_count |-> 900,
            duration_seconds |-> 500, view_bucket |-> "under-5k",
            scraped_at |-> 0] }
    ELSE IF channel = IdB
    THEN { [video_id |-> Vid(4), channel_id |-> IdB,
            channel_name |-> <<"title of", "UCb">>, view_count |-> 60000,
            duration_seconds |-> 900, view_bucket |-> "50-100k",
            scraped_at |-> 0] }
    ELSE {}

ViralStores ==
    { StoredRows(a) \cup StoredRows(b) : a \in {NoneId, IdA}, b \in {NoneId, IdB} }

\* check_channel_exists, lines 50-65; query_ok is FALSE when the query raises
check_channel_exists(store, channel_id, query_ok) ==
    IF query_ok THEN \E r \in store : r.channel_id = channel_id ELSE FALSE

\* get_channel_last_scraped, lines 67-93
get_channel_last_scraped(store, channel_id, query_ok) ==
    IF query_ok /\ (\E r \in store : r.channel_id = channel_id)
    THEN Max({ r.scraped_at : r \in { x \in store : x.channel_id = channel_id } })
    ELSE None

\* get_channel_info(channel_id)['title'], None when nothing is found
ChannelTitle(channel_id, info_ok) ==
    IF info_ok THEN <<"title of", channel_id.tag>> ELSE NoneStr

\* lines 183-194: the videos long enough and published after the cutoff
FilterVideos(all_videos, expired) ==
    LET Keep(video) == /\ ~(video.duration_seconds < video_min_duration)
                       /\ video.video_id \notin expired
    IN  SelectSeq(all_videos, Keep)

\* lines 202-231: one upsert for each filtered video; the upsert of a video
\* in `failing` raises and the loop goes on
RECURSIVE StoreVideos(_, _, _, _, _, _)
StoreVideos(store, filtered_videos, channel_id, channel_name, failing, now) ==
    IF filtered_videos = <<>>
    THEN [store |-> store, stored_count |-> 0]
    ELSE LET video == Head(filtered_videos)
             after == IF video.video_id \in failing
                      THEN store
                      ELSE Upsert(store, {ViralRow(video, channel_id, channel_name, now)})
             rest  == StoreVideos(after, Tail(filtered_videos), channel_id,
                                  channel_name, failing, now)
         IN  [store |-> rest.store,
              stored_count |-> rest.stored_count
                                 + (IF video.video_id \in failing THEN 0 ELSE 1)]

\* the early return taken for every stored channel, forced or not
AlreadyScraped_IgnoreForce(exists, force_refresh) == exists

\* line 147: `if exists and not force_refresh`
AlreadyScraped(exists, force_refresh) == exists /\ ~force_refresh

\* the dict scrape_channel starts from
ScrapeResult ==
    [success |-> FALSE, channel_id |-> NoneId, channel_name |-> NoneStr,
     videos_scraped |-> 0, videos_stored |-> 0, already_existed |-> FALSE,
     last_scraped |-> None, error |-> FALSE]

\* the id a 24-character text "UC..." writes
IdOfText(text) == IF text = BareId THEN IdA ELSE NoneId

\* scrape_channel(channel_input, days, force_refresh), lines 95-242.  env:
\* the answer of the channel page, whether the queries of the existence
\* check answer, whether the channel info is found, how the video calls
\* behave, the videos older than the cutoff, the videos whose upsert raises
scrape_channel(store, channel_input, force_refresh, env) ==
    LET bare     == IsBareId(channel_input)
        resolved == get_channel_id_from_html(channel_input, env.page)
        channel_id == IF bare THEN IdOfText(channel_input) ELSE resolved.channel_id
        exists   == check_channel_exists(store, channel_id, env.query_ok)
        last_scraped == get_channel_last_scraped(store, channel_id, env.query_ok)
        channel_name == ChannelTitle(channel_id, env.info_ok)
        all_videos == get_recent_videos(channel_id, channel_name,
                                        max_videos_per_channel, env.api)
        filtered_videos == FilterVideos(all_videos, env.expired)
        stored   == StoreVideos(store, filtered_videos, channel_id, channel_name,
                                env.failing, 1)
        none     == [store |-> store, page_requested |-> ~bare, api_calls |-> <<>>,
                     result |-> ScrapeResult]
    IN  IF ~bare /\ resolved.raised
        THEN [none EXCEPT !.page_requested = FALSE, !.result.error = TRUE]
        ELSE IF ~bare /\ resolved.channel_id = NoneId
        THEN [none EXCEPT !.result.error = TRUE]
        ELSE IF AlreadyScraped(exists, force_refresh)
        THEN [none EXCEPT !.result.channel_id = channel_id,
                          !.result.already_existed = TRUE,
                          !.result.last_scraped = last_scraped,
                          !.result.success = TRUE]
        ELSE IF channel_name = NoneStr
        THEN [none EXCEPT !.result.channel_id = channel_id,
                          !.result.error = TRUE,
                          !.api_calls = <<"get_channel_info">>]
        ELSE [store |-> stored.store, page_requested |-> ~bare,
              api_calls |-> <<"get_channel_info", "get_recent_videos">>,
              result |-> [ScrapeResult EXCEPT
                            !.channel_id = channel_id,
                            !.channel_name = channel_name,
                            !.videos_scraped = Len(filtered_videos),
                            !.videos_stored = stored.stored_count,
                            !.success = TRUE]]

\* a call of scrape_channel
ScrapeChannel ==
    /\ viral.pc = "ready"
    /\ \E input \in ViralInputs, force_refresh \in BOOLEAN :
       \E page \in ViralPages(input.channel), query_ok \in BOOLEAN,
          info_ok \in BOOLEAN, api \in ApiSamples,
          expired \in SUBSET {Vid(2)}, failing \in SUBSET {Vid(2)} :
          LET env == [page |-> page, query_ok |-> query_ok, info_ok |-> info_ok,
                      api |-> api, expired |-> expired, failing |-> failing]
              r   == scrape_channel(viral.store, input.text, force_refresh, env)
          IN  viral' = [pc |-> "returned", before |-> viral.store,
                        store |-> r.store, input |-> input,
                        force_refresh |-> force_refresh, env |-> env,
                        page_requested |-> r.page_requested,
                        api_calls |-> r.api_calls, result |-> r.result]
    /\ UNCHANGED <<appVars, duration, transcript, quota, cache, stripe>>

InitViral ==
    /\ IdlePlatform
    /\ duration = NoCall
    /\ transcript = NoCall
    /\ \E store \in ViralStores : viral = [pc |-> "ready", store |-> store]
    /\ quota = NoCall
    /\ cache = NoCall
    /\ stripe = NoCall

ViralNext == ScrapeChannel

SpecViral == InitViral /\ [][ViralNext]_vars

\* ------------------------------------------------------------------------
\* generate_preview: concurrent requests of one user
\* ------------------------------------------------------------------------
\* The handler yields at `await thumbnail.read()` (line 349), between the
\* eligibility check and the insert of the test, and several server
\* processes share the database.  Each request is followed through the
\* steps that read or write the counter and the tests; the video rows it
\* writes in between are left out.
MaxRequests == 6

Requests == 1..MaxRequests

QuotaUser == "u1"

\* lines 262-280: the eligibility check
QuotaCheck(r) ==
    /\ quota.pc[r] = "new"
    /\ \E rpc_ok \in BOOLEAN :
          quota' = [quota EXCEPT !.pc[r] = IF can_create_test(QuotaUser, rpc_ok)
                                           THEN "checked" ELSE "rejected"]
    /\ UNCHANGED <<poolVars, genPc, g, sh, sessions, dbVars, csv_log, usage,
                   scrape, fetch, ai, angles, bucket,
                   duration, transcript, viral, cache, stripe>>

\* lines 282-344: no suggestion, no channel resolved, no video fetched
QuotaFail(r) ==
    /\ quota.pc[r] = "checked"
    /\ quota' = [quota EXCEPT !.pc[r] = "failed"]
    /\ UNCHANGED <<poolVars, genPc, g, sh, sessions, dbVars, csv_log, usage,
                   scrape, fetch, ai, angles, bucket,
                   duration, transcript, viral, cache, stripe>>

\* lines 362-380: the insert of the test
QuotaPersist(r) ==
    /\ quota.pc[r] = "checked"
    /\ thumbnail_tests' = Append(thumbnail_tests,
           [user_id |-> QuotaUser, status |-> "completed",
            total_videos_fetched |-> 1])
    /\ quota' = [quota EXCEPT !.pc[r] = "persisted"]
    /\ UNCHANGED <<poolVars, genPc, g, sh, sessions, test_videos, youtube_videos,
                   csv_log, usage, scrape, fetch, ai, angles, bucket,
                   duration, transcript, viral, cache, stripe>>

\* lines 549-574: formatting of the display list, which holds the user's
\* item, then the increment and the redirect
QuotaRespond(r) ==
    /\ quota.pc[r] = "persisted"
    /\ IF format_videos_for_template(<<user_video_data>>).raised
       THEN /\ quota' = [quota EXCEPT !.pc[r] = "error"]
            /\ UNCHANGED usage
       ELSE /\ quota' = [quota EXCEPT !.pc[r] = "redirected"]
            /\ usage' = [usage EXCEPT ![QuotaUser] = @ + 1]
    /\ UNCHANGED <<poolVars, genPc, g, sh, sessions, dbVars, csv_log,
                   scrape, fetch, ai, angles, bucket,
                   duration, transcript, viral, cache, stripe>>

InitQuota ==
    /\ IdlePlatform
    /\ duration = NoCall
    /\ transcript = NoCall
    /\ viral = NoCall
    /\ quota = [pc |-> [r \in Requests |-> "new"]]
    /\ cache = NoCall
    /\ stripe = NoCall

QuotaNext ==
    \E r \in Requests :
        \/ QuotaCheck(r)
        \/ QuotaFail(r)
        \/ QuotaPersist(r)
        \/ QuotaRespond(r)

SpecQuota == InitQuota /\ [][QuotaNext]_vars

\* ------------------------------------------------------------------------
\* angle_cache_service.py and the angle routes of routes/viral_researcher.py
\* ------------------------------------------------------------------------
\* the videos of the requests: vidA has a transcript, vidB has none
CacheVideos == {"vidA", "vidB"}

HasTranscript(video_id) == video_id = "vidA"

\* what Claude answers a user's request: an error, three full angles, three
\* angles with the required keys followed by a full one
CacheReplies ==
    { [kind |-> "error", items |-> <<>>],
      [kind |-> "json_list",
       items |-> [k \in 1..3 |-> [type |-> "dict", keys |-> AllKeys]]],
      [kind |-> "json_list",
       items |-> [k \in 1..4 |-> [type |-> "dict",
                                  keys |-> IF k < 4 THEN RequiredKeys ELSE AllKeys]]] }

\* the indexes a form may post
IndexSamples == {-1, 0, 2, 3, 4}

\* save_angles(video_id, angles): self._cache[video_id] = angles
save_angles(store, video_id, angle_list) ==
    [v \in DOMAIN store \cup {video_id} |->
        IF v = video_id THEN angle_list ELSE store[v]]

\* get_angles(video_id): self._cache.get(video_id, [])
get_angles(store, video_id) ==
    IF video_id \in DOMAIN store THEN store[video_id] ELSE <<>>

\* get_angle_by_index(video_id, index); <<>> stands for None
get_angle_by_index(store, video_id, index) ==
    LET angle_list == get_angles(store, video_id)
    IN  IF 0 <= index /\ index < Len(angle_list)
        THEN <<angle_list[index + 1]>>
        ELSE <<>>

\* POST /video/{video_id}/generate-angles, lines 214-249.  `shown` keeps the
\* list of the response each user last got for each video
GenerateAnglesRoute ==
    /\ cache.pc \in {"ready", "served"}
    /\ \E user \in Users, video_id \in CacheVideos, reply \in CacheReplies :
          IF ~HasTranscript(video_id)
          THEN cache' = [cache EXCEPT
                           !.pc = "served",
                           !.call = [route |-> "generate_angles", user |-> user,
                                     video_id |-> video_id, angle_index |-> 0,
                                     status |-> 400, angle |-> <<>>]]
          ELSE LET angle_list == generate_angles(reply).angles
               IN  cache' = [pc |-> "served",
                             store |-> save_angles(cache.store, video_id, angle_list),
                             shown |-> [cache.shown EXCEPT ![user][video_id] = angle_list],
                             call |-> [route |-> "generate_angles", user |-> user,
                                       video_id |-> video_id, angle_index |-> 0,
                                       status |-> 200, angle |-> <<>>]]
    /\ UNCHANGED <<appVars, duration, transcript, viral, quota, stripe>>

\* POST /generate-script, lines 286-300: the angle the script is made from
GenerateScriptRoute ==
    /\ cache.pc \in {"ready", "served"}
    /\ \E user \in Users, video_id \in CacheVideos, angle_index \in IndexSamples :
          LET angle == get_angle_by_index(cache.store, video_id, angle_index)
          IN  cache' = [cache EXCEPT
                          !.pc = "served",
                          !.call = [route |-> "generate_script", user |-> user,
                                    video_id |-> video_id,
                                    angle_index |-> angle_index,
                                    status |-> IF angle = <<>> THEN 400
                                               ELSE IF ~HasTranscript(video_id)
                                               THEN 400 ELSE 200,
                                    angle |-> angle]]
    /\ UNCHANGED <<appVars, duration, transcript, viral, quota, stripe>>

InitCache ==
    /\ IdlePlatform
    /\ duration = NoCall
    /\ transcript = NoCall
    /\ viral = NoCall
    /\ quota = NoCall
    /\ cache = [pc |-> "ready", store |-> <<>>,
                shown |-> [u \in Users |-> [v \in CacheVideos |-> <<>>]],
                call |-> [route |-> "none", user |-> Anonymous, video_id |-> "vidA",
                          angle_index |-> 0, status |-> 0, angle |-> <<>>]]
    /\ stripe = NoCall

CacheNext ==
    \/ GenerateAnglesRoute
    \/ GenerateScriptRoute

SpecCache == InitCache /\ [][CacheNext]_vars

\* ------------------------------------------------------------------------
\* stripe_service.py: the webhook handlers
\* ------------------------------------------------------------------------
pro_tests_limit == 999999
free_tests_limit == 5

\* a new profile (models/database.py:35-42); "none" stands for NULL
FreeProfile ==
    [subscription_tier |-> "free", tests_limit |-> free_tests_limit,
     subscription_status |-> "none", stripe_subscription_id |-> "none",
     tests_used_this_month |-> 0]

\* the subscriptions and the statuses the events carry
SubscriptionIds == {"sub_1", "sub_2"}

StatusSamples == {"active", "trialing", "past_due", "canceled"}

\* lines 197-203
checkout_completed(profile, subscription_id) ==
    [profile EXCEPT !.stripe_subscription_id = subscription_id,
                    !.subscription_tier = "pro",
                    !.subscription_status = "active",
                    !.tests_limit = pro_tests_limit]

\* lines 215-223
subscription_created(profile, subscription_id, status) ==
    LET is_active == status = "active"
    IN  [profile EXCEPT !.stripe_subscription_id = subscription_id,
                        !.subscription_tier = IF is_active THEN "pro" ELSE "free",
                        !.subscription_status = status,
                        !.tests_limit = IF is_active THEN pro_tests_limit
                                        ELSE free_tests_limit]

\* lines 243-251
subscription_updated(profile, status) ==
    LET is_pro == status \in {"active", "trialing"}
    IN  [profile EXCEPT !.subscription_tier = IF is_pro THEN "pro" ELSE "free",
                        !.subscription_status = status,
                        !.tests_limit = IF is_pro THEN pro_tests_limit
                                        ELSE free_tests_limit]

\* a cancellation that leaves the limit as it is
subscription_deleted_KeepsLimit(profile) ==
    [profile EXCEPT !.subscription_tier = "free",
                    !.subscription_status = "canceled"]

\* lines 270-275
subscription_deleted(profile) ==
    [profile EXCEPT !.subscription_tier = "free",
                    !.subscription_status = "canceled",
                    !.tests_limit = free_tests_limit]

\* lines 301-306
payment_succeeded(profile) ==
    [profile EXCEPT !.subscription_status = "active",
                    !.tests_used_this_month = 0]

\* lines 335-338
payment_failed(profile) ==
    [profile EXCEPT !.subscription_status = "past_due"]

\* select("id").eq("stripe_subscription_id", subscription_id): the ids found;
\* the handlers take the first row of the answer
ProfilesOf(subscription_id) ==
    { u \in Users : stripe.profiles[u].stripe_subscription_id = subscription_id }

\* the event served and the profile it wrote, if any
Served(type, user, status) ==
    [type |-> type, user |-> user, status |-> status]

\* handle_webhook_event, line 159, and _handle_checkout_completed
CheckoutCompleted ==
    /\ stripe.pc = "listening"
    /\ \E user_id \in Users \cup {Anonymous}, subscription \in SubscriptionIds :
          stripe' =
            IF user_id = Anonymous
            THEN [stripe EXCEPT !.event = Served("checkout.session.completed",
                                                 Anonymous, "none")]
            ELSE [stripe EXCEPT
                    !.profiles[user_id] = checkout_completed(@, subscription),
                    !.event = Served("checkout.session.completed", user_id, "none")]
    /\ UNCHANGED <<appVars, duration, transcript, viral, quota, cache>>

\* line 162 and _handle_subscription_created
SubscriptionCreated ==
    /\ stripe.pc = "listening"
    /\ \E user_id \in Users \cup {Anonymous}, subscription \in SubscriptionIds,
          status \in StatusSamples :
          stripe' =
            IF user_id = Anonymous
            THEN [stripe EXCEPT !.event = Served("customer.subscription.created",
                                                 Anonymous, status)]
            ELSE [stripe EXCEPT
                    !.profiles[user_id] = subscription_created(@, subscription, status),
                    !.event = Served("customer.subscription.created", user_id, status)]
    /\ UNCHANGED <<appVars, duration, transcript, viral, quota, cache>>

\* line 165 and _handle_subscription_updated
SubscriptionUpdated ==
    /\ stripe.pc = "listening"
    /\ \E subscription \in SubscriptionIds, status \in StatusSamples :
          IF ProfilesOf(subscription) = {}
          THEN stripe' = [stripe EXCEPT
                            !.event = Served("customer.subscription.updated",
                                             Anonymous, status)]
          ELSE \E user_id \in ProfilesOf(subscription) :
                  stripe' = [stripe EXCEPT
                      !.profiles[user_id] = subscription_updated(@, status),
                      !.event = Served("customer.subscription.updated", user_id, status)]
    /\ UNCHANGED <<appVars, duration, transcript, viral, quota, cache>>

\* line 168 and _handle_subscription_deleted
SubscriptionDeleted ==
    /\ stripe.pc = "listening"
    /\ \E subscription \in SubscriptionIds :
          IF ProfilesOf(subscription) = {}
          THEN stripe' = [stripe EXCEPT
                            !.event = Served("customer.subscription.deleted",
                                             Anonymous, "none")]
          ELSE \E user_id \in ProfilesOf(subscription) :
                  stripe' = [stripe EXCEPT
                      !.profiles[user_id] = subscription_deleted(@),
                      !.event = Served("customer.subscription.deleted", user_id, "none")]
    /\ UNCHANGED <<appVars, duration, transcript, viral, quota, cache>>

\* line 171 and _handle_payment_succeeded; "none": an invoice without
\* subscription
PaymentSucceeded ==
    /\ stripe.pc = "listening"
    /\ \E subscription \in SubscriptionIds \cup {"none"} :
          IF subscription = "none" \/ ProfilesOf(subscription) = {}
          THEN stripe' = [stripe EXCEPT
                            !.event = Served("invoice.payment_succeeded",
                                             Anonymous, "none")]
          ELSE \E user_id \in ProfilesOf(subscription) :
                  stripe' = [stripe EXCEPT
                      !.profiles[user_id] = payment_succeeded(@),
                      !.event = Served("invoice.payment_succeeded", user_id, "none")]
    /\ UNCHANGED <<appVars, duration, transcript, viral, quota, cache>>

\* line 174 and _handle_payment_failed
PaymentFailed ==
    /\ stripe.pc = "listening"
    /\ \E subscription \in SubscriptionIds \cup {"none"} :
          IF subscription = "none" \/ ProfilesOf(subscription) = {}
          THEN stripe' = [stripe EXCEPT
                            !.event = Served("invoice.payment_failed",
                                             Anonymous, "none")]
          ELSE \E user_id \in ProfilesOf(subscription) :
                  stripe' = [stripe EXCEPT
                      !.profiles[user_id] = payment_failed(@),
                      !.event = Served("invoice.payment_failed", user_id, "none")]
    /\ UNCHANGED <<appVars, duration, transcript, viral, quota, cache>>

\* lines 150-184: an event of another type, or a signature that does not
\* verify: nothing is written
WebhookIgnored ==
    /\ stripe.pc = "listening"
    /\ \E type \in {"customer.updated", "invalid signature"} :
          stripe' = [stripe EXCEPT !.event = Served(type, Anonymous, "none")]
    /\ UNCHANGED <<appVars, duration, transcript, viral, quota, cache>>

InitStripe ==
    /\ IdlePlatform
    /\ duration = NoCall
    /\ transcript = NoCall
    /\ viral = NoCall
    /\ quota = NoCall
    /\ cache = NoCall
    /\ stripe = [pc |-> "listening",
                 profiles |-> [u \in Users |-> FreeProfile],
                 event |-> Served("none", Anonymous, "none")]

StripeNext ==
    \/ CheckoutCompleted
    \/ SubscriptionCreated
    \/ SubscriptionUpdated
    \/ SubscriptionDeleted
    \/ PaymentSucceeded
    \/ PaymentFailed
    \/ WebhookIgnored

SpecStripe == InitStripe /\ [][StripeNext]_vars

\* ------------------------------------------------------------------------
\* Placement (C1)
\* ------------------------------------------------------------------------
\* max(0, floor((M+1)*2/3) - 1)
PlacementBound(M) ==
    LET t == ((M + 1) * 2) \div 3 IN IF t - 1 > 0 THEN t - 1 ELSE 0

\* position (from 0) of the items of a list flagged as the user's
UserIndexes(videos) == { k - 1 : k \in { j \in DOMAIN videos : videos[j].is_user_video } }

\* C1: in generate_preview and in shuffle_results, with M filtered competitor
\* videos, every user_position drawn lies in 0..max(0, floor((M+1)*2/3) - 1),
\* the final list has M+1 items and the user's item is at index user_position.
C1_Placement ==
    /\ genPc \in {"persisted", "displayed"} =>
          LET M == Len(SelectSeq(g.all_videos, NotShort))
          IN  /\ g.persisted_user_position \in 0..PlacementBound(M)
              /\ Len(g.non_shorts) = M
    /\ genPc = "displayed" =>
          LET M == Len(SelectSeq(g.all_videos, NotShort))
          IN  /\ g.user_position \in 0..PlacementBound(M)
              /\ Len(g.all_display_videos) = M + 1
              /\ UserIndexes(g.all_display_videos) = {g.user_position}
    /\ (sh.status \in {200, 500} /\ SelectSeq(sh.all_videos, IsUserVideo) # <<>>) =>
          LET M == Len(SelectSeq(sh.all_videos, IsCompetitor))
          IN  /\ sh.user_position \in 0..PlacementBound(M)
              /\ Len(sh.shuffled_videos) = M + 1
              /\ UserIndexes(sh.shuffled_videos) = {sh.user_position}

\* a reshuffle of a persisted test with two competitor videos put the user's
\* item at the last position allowed
C1_Witness ==
    /\ sh.status \in {200, 500}
    /\ sh.source = "store"
    /\ Len(sh.competitor_videos) = 2
    /\ sh.user_position = 1
    /\ sh.shuffled_videos[2].is_user_video

\* ------------------------------------------------------------------------
\* The worker pool (C2, C3, C4)
\* ------------------------------------------------------------------------
Count(s, Test(_)) == Cardinality({ k \in DOMAIN s : Test(s[k]) })

\* C2: resolve_channels_parallel called with K handles returns K records, as
\* many for each handle as the handle was submitted times, whatever the order
\* in which the workers complete.
C2_OneRecordPerHandle ==
    poolPc = "returned" =>
        /\ Len(results) = Len(channel_handles)
        /\ \A h \in { channel_handles[i] : i \in DOMAIN channel_handles } :
              Count(results, LAMBDA r : r.handle = h)
                  = Count(channel_handles, LAMBDA x : x = h)

\* the same handle was submitted twice and the second task was collected first
C2_Witness ==
    /\ poolPc = "returned"
    /\ Len(channel_handles) = 2
    /\ channel_handles[1] = channel_handles[2]
    /\ order = <<2, 1>>
    /\ Len(results) = 2

\* C3 (as stated): resolve_channel_handle(h) returns, for every string h,
\* either success with a 24-character id or failure with no id; it never
\* raises.
C3_NeverRaises ==
    \A i \in DOMAIN futures :
        futures[i].state = "finished" =>
            /\ ~futures[i].outcome.raised
            /\ \/ /\ futures[i].outcome.success
                  /\ futures[i].outcome.channel_id.len = 24
               \/ /\ ~futures[i].outcome.success
                  /\ futures[i].outcome.channel_id = NoneId

\* C4: when resolving a handle raises in its worker the call still returns;
\* that handle gets {handle, channel_id None, success false}, and every other
\* handle gets the record its own worker returned.
C4_WorkerFailureIsolated ==
    poolPc = "returned" =>
        /\ Len(results) = Len(channel_handles)
        /\ Len(order) = Len(results)
        /\ \A k \in DOMAIN results :
              LET i == order[k]
                  out == futures[i].outcome
              IN  IF out.raised
                  THEN /\ results[k].handle = channel_handles[i]
                       /\ results[k].channel_id = NoneId
                       /\ ~results[k].success
                  ELSE /\ results[k].handle = out.handle
                       /\ results[k].channel_id = out.channel_id
                       /\ results[k].url = out.url
                       /\ results[k].success = out.success

\* one worker raised, another resolved its handle, and the call returned
C4_Witness ==
    /\ poolPc = "returned"
    /\ \E i, j \in DOMAIN futures :
          /\ futures[i].outcome.raised
          /\ futures[j].outcome.success
    /\ \E k \in DOMAIN results : results[k].success

\* ------------------------------------------------------------------------
\* generate_preview: resolution, fetch and response (C5, C6, C7, C10)
\* ------------------------------------------------------------------------
AllAnswer(n) ==
    [k \in 1..n |-> [info |-> TRUE, playlist |-> TRUE, details |-> TRUE,
                     omitted |-> {}, assembled |-> videos_per_channel]]

\* C5: get_recent_videos is never invoked for a channel record whose success
\* is false: generate_preview passes on only the resolved channels, and
\* get_videos_for_channels, given the resolver's records as they are, calls
\* the fetcher for the successful ones only.
C5_FetcherOnlySuccessful ==
    /\ \A k \in DOMAIN g.successful_channels : g.successful_channels[k].success
    /\ \A k \in DOMAIN g.fetcher_calls :
          /\ g.fetcher_calls[k].success
          /\ g.fetcher_calls[k].channel_id # NoneId
    /\ LET direct == get_videos_for_channels(g.resolved_channels, videos_per_channel,
                                             AllAnswer(Len(g.resolved_channels)))
       IN  \A k \in DOMAIN direct.calls : direct.calls[k].success

\* the fetcher was invoked for the one channel that resolved, a second handle
\* having failed
C5_Witness ==
    /\ genPc = "fetched"
    /\ Len(g.fetcher_calls) = 1
    /\ Len(g.resolved_channels) = 2
    /\ \E k \in DOMAIN g.resolved_channels : ~g.resolved_channels[k].success

\* C6: of the outcomes of resolution and fetch, generate_preview aborts (500)
\* exactly when no handle resolved, or when no video at all was fetched; with
\* some handles unresolved or some channels empty it goes on.
C6_FatalOnlyWhenEmpty ==
    [][ /\ (genPc = "resolving" /\ genPc' # "resolving") =>
              /\ genPc' \in {"done", "resolved"}
              /\ (genPc' = "done") <=> (\A k \in DOMAIN results : ~results[k].success)
              /\ (genPc' = "done") => (g'.status = 500)
        /\ (genPc = "resolved" /\ genPc' # "resolved") =>
              /\ genPc' \in {"done", "fetched"}
              /\ (genPc' = "done") <=> (g'.all_videos = <<>>)
              /\ (genPc' = "done") => (g'.status = 500)
      ]_vars

\* one of two handles did not resolve and the request went on with the
\* videos of the channel that did
C6_Witness ==
    /\ genPc = "fetched"
    /\ \E k \in DOMAIN g.resolved_channels : ~g.resolved_channels[k].success
    /\ g.all_videos # <<>>

\* C7 (as stated): generate_preview fails only when no channel resolved or no
\* video was fetched; a request that resolved a channel and fetched a video
\* (and so persisted a test) ends with the redirect.
C7_RedirectWhenMeaningful ==
    genPc = "done" =>
        /\ g.status = 500 =>
              g.detail \in {"Failed to get channel suggestions from AI",
                            "Failed to resolve any channel IDs",
                            "Failed to fetch videos from channels"}
        /\ g.test_id # 0 => g.status = 303

\* C10 (as stated): the arrangement persisted in test_videos is the
\* arrangement of the display list built for the session: same order of
\* competitor videos, same user_position.
C10_SameArrangement ==
    genPc = "displayed" =>
        /\ g.user_position = g.persisted_user_position
        /\ g.display_videos = g.non_shorts
        /\ \A tv \in { r \in test_videos : r.test_id = g.test_id } :
              /\ g.all_display_videos[tv.position + 1].is_user_video = tv.is_user_video
              /\ ~tv.is_user_video =>
                    g.all_display_videos[tv.position + 1].video_id = tv.video_id

\* ------------------------------------------------------------------------
\* shuffle_results on a persisted test (C8, C9)
\* ------------------------------------------------------------------------
\* the items of a list as a bag: how often each occurs
Occurs(s, x) == Cardinality({ k \in DOMAIN s : s[k] = x })
SameItems(s, t) ==
    /\ Len(s) = Len(t)
    /\ \A k \in DOMAIN s : Occurs(s, s[k]) = Occurs(t, s[k])

\* C8 (as stated): shuffle_results on a display set rebuilt from persisted
\* records succeeds and returns a permutation of the rebuilt items, the user
\* item's duration and view count being absent.
C8_ReshuffleOfPersisted ==
    sh.source = "store" =>
        /\ sh.status = 200
        /\ SameItems(sh.shuffled_videos, sh.all_videos)

\* C9: on a cache miss shuffle_results rebuilds the list from the caller's
\* persisted test and its test_videos, in position order, before shuffling;
\* 404 is answered only when there is no such test or it has no videos; a
\* cache hit reads nothing from the store.
C9_ReconstructOnMiss ==
    /\ sh.status # 0 =>
          /\ (sh.session_id \notin DOMAIN sessions /\ sh.status \in {200, 500}) =>
                /\ sh.source = "store"
                /\ OwnedTest(sh.session_id, sh.user_id)
                /\ Len(sh.all_videos) = Cardinality(TestVideoRows(sh.session_id))
                /\ \A tv \in TestVideoRows(sh.session_id) :
                      /\ sh.all_videos[tv.position + 1].video_id = tv.video_id
                      /\ sh.all_videos[tv.position + 1].is_user_video = tv.is_user_video
          /\ sh.status = 404 =>
                \/ ~OwnedTest(sh.session_id, sh.user_id)
                \/ TestVideoRows(sh.session_id) = {}
          /\ sh.store_reads > 0 => sh.session_id \notin DOMAIN sessions
          /\ sh.source = "memory" => sh.store_reads = 0
    /\ genPc = "displayed" =>
          \A user_id \in Users \cup {Anonymous} :
              LET mem == [k \in {SessionId(g.test_id)} |-> g.all_display_videos]
                  hit == LoadVideos(mem, SessionId(g.test_id), user_id)
              IN  /\ hit.source = "memory"
                  /\ hit.store_reads = 0
                  /\ hit.all_videos = g.all_display_videos

\* a persisted test of three items was rebuilt for its owner on a cache miss
C9_Witness ==
    /\ sh.source = "store"
    /\ sh.session_id \notin DOMAIN sessions
    /\ Len(sh.all_videos) = 3
    /\ sh.store_reads = 2

\* ------------------------------------------------------------------------
\* The display set (C11, C12)
\* ------------------------------------------------------------------------
\* C11: every display list built by generate_preview or by shuffle_results,
\* after any sequence of generate and shuffle requests, holds at most one item
\* flagged as the user's.
C11_AtMostOneUserItem ==
    /\ genPc = "displayed" =>
          Cardinality(UserIndexes(g.all_display_videos)) <= 1
    /\ sh.status \in {200, 500} =>
          Cardinality(UserIndexes(sh.shuffled_videos)) <= 1

\* a reshuffle of a persisted test built a list of several items, one of
\* them the user's
C11_Witness ==
    /\ sh.status \in {200, 500}
    /\ sh.session_id.kind = "test"
    /\ Len(sh.shuffled_videos) >= 2
    /\ Cardinality(UserIndexes(sh.shuffled_videos)) = 1

\* a known duration below the threshold
KnownShort(video) ==
    /\ video.duration_seconds # None
    /\ video.duration_seconds < shorts_duration_threshold

VideoIds(videos) == { videos[k].video_id : k \in DOMAIN videos }

\* video ids of the competitor rows persisted for a test
PersistedIds(test_id) ==
    { tv.video_id : tv \in { r \in test_videos : r.test_id = test_id /\ ~r.is_user_video } }

ListedItems == PlaylistResponse(fetch.channel_id, fetch.max_results)
DetailItems == VideosResponse(ListedItems, fetch.api.omitted)

\* none of the steps of the call recorded in fetch failed
NoStepFails ==
    /\ fetch.api.info
    /\ fetch.api.playlist
    /\ fetch.api.details
    /\ fetch.api.assembled >= Len(DetailItems)

\* C13: get_recent_videos returns a list whatever fails: the empty list when
\* get_channel_info fails, and when the playlist listing, the details call
\* or the assembling of a record fails, the records assembled before that.
C13_PartialOnFailure ==
    fetch.pc = "recent" =>
        /\ ~fetch.api.info => fetch.videos = <<>>
        /\ (fetch.api.info /\ ~fetch.api.playlist) => fetch.videos = <<>>
        /\ (fetch.api.info /\ fetch.api.playlist /\ ~fetch.api.details) =>
               fetch.videos = <<>>
        /\ (fetch.api.info /\ fetch.api.playlist /\ fetch.api.details) =>
               /\ Len(fetch.videos) =
                      (IF fetch.api.assembled < Len(DetailItems)
                       THEN fetch.api.assembled ELSE Len(DetailItems))
               /\ \A k \in DOMAIN fetch.videos :
                      fetch.videos[k].video_id = DetailItems[k].id

\* assembling the second of two records failed and the first was returned
C13_Witness ==
    /\ fetch.pc = "recent"
    /\ fetch.api.info /\ fetch.api.playlist /\ fetch.api.details
    /\ Len(DetailItems) = 2
    /\ fetch.api.assembled = 1
    /\ Len(fetch.videos) = 1

\* C14 (as stated): when no step fails get_recent_videos returns exactly one
\* record for each video id collected from the playlist listing, each with
\* the supplied channel_id and channel_name.
C14_OnePerPlaylistId ==
    (fetch.pc = "recent" /\ NoStepFails) =>
        /\ Len(fetch.videos) = Len(ListedItems)
        /\ \A k \in DOMAIN fetch.videos :
              /\ fetch.videos[k].video_id = ListedItems[k].id
              /\ fetch.videos[k].channel_id = fetch.channel_id
              /\ fetch.videos[k].channel_name = fetch.channel_name

\* C14 (amended): when no step fails get_recent_videos returns exactly one
\* record for each item of the details response, in its order: one for every
\* listed id the details call answers for, none for an id it leaves out;
\* each record has the supplied channel_id and channel_name.
C14_OnePerDetailsItem ==
    (fetch.pc = "recent" /\ NoStepFails) =>
        /\ Len(fetch.videos) = Len(DetailItems)
        /\ Len(fetch.videos) =
               Cardinality({ k \in DOMAIN ListedItems : k \notin fetch.api.omitted })
        /\ \A k \in DOMAIN fetch.videos :
              /\ fetch.videos[k].video_id = DetailItems[k].id
              /\ fetch.videos[k].channel_id = fetch.channel_id
              /\ fetch.videos[k].channel_name = fetch.channel_name

\* two ids were listed, the details call answered for the second only, and
\* one record was returned
C14_Witness ==
    /\ fetch.pc = "recent"
    /\ NoStepFails
    /\ Len(ListedItems) = 2
    /\ fetch.api.omitted = {1}
    /\ Len(fetch.videos) = 1
    /\ fetch.videos[1].video_id = ListedItems[2].id

\* the results of channels k..Len(channel_data), one after the other
RECURSIVE InChannelOrder(_, _, _)
InChannelOrder(channel_data, apis, k) ==
    IF k > Len(channel_data) THEN <<>>
    ELSE (IF channel_data[k].success
          THEN get_recent_videos(channel_data[k].channel_id, channel_data[k].handle,
                                 videos_per_channel, apis[k])
          ELSE <<>>)
         \o InChannelOrder(channel_data, apis, k + 1)

\* C15: get_videos_for_channels returns the per-channel results one after the
\* other in the order of its channel list, each channel's videos in the order
\* of the API response; a channel without videos adds nothing and leaves the
\* order of the others as it is.
C15_ChannelInputOrder ==
    /\ fetch.pc = "channels" =>
          /\ fetch.videos = InChannelOrder(fetch.channel_data, fetch.apis, 1)
          /\ \A i, j \in DOMAIN fetch.videos :
                 i < j =>
                    \E a, b \in DOMAIN fetch.channel_data :
                        /\ a <= b
                        /\ fetch.channel_data[a].channel_id = fetch.videos[i].channel_id
                        /\ fetch.channel_data[b].channel_id = fetch.videos[j].channel_id
    /\ fetch.pc = "recent" =>
          \A i, j \in DOMAIN fetch.videos :
              i < j =>
                 \E a, b \in DOMAIN DetailItems :
                     /\ a < b
                     /\ DetailItems[a].id = fetch.videos[i].video_id
                     /\ DetailItems[b].id = fetch.videos[j].video_id

\* a channel without videos stood between two others, whose videos came
\* back in the order of the list
C15_Witness ==
    /\ fetch.pc = "channels"
    /\ Len(fetch.channel_data) = 3
    /\ fetch.channel_data[1].channel_id = IdB
    /\ fetch.channel_data[2].channel_id = IdC
    /\ fetch.channel_data[3].channel_id = IdA
    /\ Len(fetch.videos) = 3
    /\ fetch.videos[1].channel_id = IdB
    /\ fetch.videos[2].channel_id = IdA

\* ------------------------------------------------------------------------
\* The resolver on one input (C16, C17)
\* ------------------------------------------------------------------------
\* C16: when the request was made, on a 200 page the id of the canonical
\* channel link is returned if there is one, else the id of the externalId
\* field if there is one, with success; without either, with another status,
\* or when the request raised, channel_id is None and success is false.
C16_FirstPatternWins ==
    (scrape.pc = "returned" /\ ~scrape.raised) =>
        LET link == RegexId(scrape.resp.link)
            ext  == RegexId(scrape.resp.ext)
        IN  /\ (scrape.resp.status = 200 /\ link # NoneId) =>
                   (scrape.channel_id = link /\ scrape.success)
            /\ (scrape.resp.status = 200 /\ link = NoneId /\ ext # NoneId) =>
                   (scrape.channel_id = ext /\ scrape.success)
            /\ (scrape.resp.status # 200 \/ (link = NoneId /\ ext = NoneId)) =>
                   (scrape.channel_id = NoneId /\ ~scrape.success)
            /\ scrape.success => scrape.channel_id.len = IdLen
            /\ scrape.returned_url = scrape.url

\* a page had a canonical link and an externalId of different channels, and
\* the id of the link was returned
C16_Witness ==
    /\ scrape.pc = "returned"
    /\ ~scrape.raised
    /\ scrape.resp = [status |-> 200, link |-> IdA, ext |-> IdB]
    /\ scrape.channel_id = IdA
    /\ scrape.success

\* C17 (as stated): before the request, an input with the platform's domain
\* and a handle has the handle segment extracted; an input that is a bare
\* stable channel id is not prefixed with "@"; any other input is prefixed
\* with "@" unless it starts with it.
C17_Normalizes ==
    scrape.pc \in {"normalized", "returned"} =>
        LET clean == Strip(scrape.channel_input)
            seg   == SplitFirst(SplitLast(clean, YOUTUBE_COM_SLASH), QMARK)
        IN  /\ (Contains(clean, YOUTUBE_COM) /\ StartsWith(seg, AT)) =>
                   scrape.url = URL_PREFIX \o seg
            /\ (~Contains(clean, YOUTUBE_COM) /\ IsBareId(clean)) =>
                   ~StartsWith(UrlPath(scrape.url), AT)
            /\ (~Contains(clean, YOUTUBE_COM) /\ ~Contains(clean, YOUTU_BE)
                  /\ ~IsBareId(clean) /\ clean # <<>>) =>
                   scrape.url = URL_PREFIX \o (IF StartsWith(clean, AT)
                                               THEN clean ELSE AT \o clean)

\* ------------------------------------------------------------------------
\* Channel suggestions (C18)
\* ------------------------------------------------------------------------
\* C18: whatever the two providers reply (an error, text without handles, an
\* empty array), get_channel_suggestions with num_channels >= 1 returns a
\* non-empty list of at most num_channels handles, each starting with "@";
\* Gemini's handles if it gave any, else Claude's if a Claude client is
\* configured and it gave any, else the first num_channels of the hardcoded
\* list.
C18_AlwaysSuggests ==
    /\ ai.pc = "returned" =>
          /\ ai.channels # <<>>
          /\ Len(ai.channels) <= ai.num_channels
          /\ \A k \in DOMAIN ai.channels :
                 ai.channels[k] # <<>> /\ ai.channels[k][1] = "@"
          /\ ai.source \in {"gemini", "claude", "fallback"}
          /\ ai.gemini # NoReply
          /\ ai.source = "gemini" => ai.claude = NoReply
          /\ ai.source = "claude" => (ai.claude_client /\ ai.claude # NoReply)
          /\ ai.claude # NoReply =>
                 /\ ai.claude_client
                 /\ ai.source # "gemini"
                 /\ ai.gemini.kind = "json_list" =>
                        \A k \in DOMAIN ai.gemini.items : ai.gemini.items[k] = NotAString
          /\ ai.source = "fallback" =>
                 /\ ai.claude_client => ai.claude # NoReply
                 /\ ai.channels[1] = <<"@", "MrBeast">>
                 /\ Len(ai.channels) = Smaller(ai.num_channels, 10)
                 /\ ai.gemini.kind = "json_list" =>
                        \A k \in DOMAIN ai.gemini.items : ai.gemini.items[k] = NotAString
          /\ (ai.gemini.kind = "json_list"
                /\ \E k \in DOMAIN ai.gemini.items : ai.gemini.items[k] # NotAString) =>
                 ai.source = "gemini"
    /\ ai.pc \in {"claude", "fallback"} => ai.channels = <<>>

\* Gemini raised, Claude answered an array of two names without "@" and one
\* handle was asked for
C18_Witness ==
    /\ ai.pc = "returned"
    /\ ai.gemini.kind = "error"
    /\ ai.source = "claude"
    /\ ai.claude.kind = "json_list"
    /\ ai.claude.items = << <<"b">>, <<"b">> >>
    /\ ai.num_channels = 1
    /\ ai.channels = << <<"@", "b">> >>

\* ------------------------------------------------------------------------
\* Angles (C19) and view buckets (C20)
\* ------------------------------------------------------------------------
\* C19 (as stated): generate_angles returns between 3 and 5 angles, each with
\* angle_name, core_hook and key_differentiator: the parsed ones when the
\* reply is usable, else the fallback ones.
C19_ThreeToFive ==
    angles.pc = "returned" =>
        /\ Len(angles.result) >= 3
        /\ Len(angles.result) <= 5
        /\ \A k \in DOMAIN angles.result :
              RequiredKeys \subseteq angles.result[k].keys
        /\ angles.source = "fallback" => angles.result = get_fallback_angles

\* C20: calculate_view_bucket gives every view count >= 0 the one tier
\* whose range holds it, each lower bound included: under-5k [0, 5000),
\* 5-10k [5000, 10000), 10-50k [10000, 50000), 50-100k [50000, 100000),
\* 100k-1M [100000, 1000000), 1M+ from 1000000.
C20_ViewBuckets ==
    bucket.pc = "returned" =>
        LET v == bucket.view_count
        IN  /\ (0 <= v /\ v < 5000)           <=> bucket.result = "under-5k"
            /\ (5000 <= v /\ v < 10000)       <=> bucket.result = "5-10k"
            /\ (10000 <= v /\ v < 50000)      <=> bucket.result = "10-50k"
            /\ (50000 <= v /\ v < 100000)     <=> bucket.result = "50-100k"
            /\ (100000 <= v /\ v < 1000000)   <=> bucket.result = "100k-1M"
            /\ (1000000 <= v)                 <=> bucket.result = "1M+"

\* a video of exactly a million views was put in the top tier
C20_Witness ==
    /\ bucket.pc = "returned"
    /\ bucket.view_count = 1000000
    /\ bucket.result = "1M+"

C22_CacheFirst ==
    transcript.pc = "returned" =>
        LET c == transcript.call
        IN  /\ (~c.force_refresh /\ Truthy(c.stored_before)) =>
                  (c.result = c.stored_before /\ ~c.provider_called)
            /\ c.force_refresh => c.provider_called
            /\ (~c.force_refresh /\ Truthy(c.returned_before)) =>
                  (c.result = c.returned_before /\ ~c.provider_called)

\* ------------------------------------------------------------------------
\* Scraping a channel that is already stored (C23)
\* ------------------------------------------------------------------------
HasStored(store, channel) == \E r \in store : r.channel_id = channel

\* the rows a scrape of the channel has to leave in viral_videos: one for
\* each fetched video that passes the filters and whose upsert did not raise
ExpectedRows(channel, env) ==
    LET title   == <<"title of", channel.tag>>
        fetched == get_recent_videos(channel, title, max_videos_per_channel, env.api)
    IN  { ViralRow(fetched[k], channel, title, 1) :
            k \in { j \in 1..Len(fetched) :
                      /\ fetched[j].duration_seconds >= video_min_duration
                      /\ fetched[j].video_id \notin env.expired
                      /\ fetched[j].video_id \notin env.failing } }

\* every expected row is stored, and every other row is a row of before
UpsertedOnly(before, after, rows) ==
    /\ rows \subseteq after
    /\ after \ rows \subseteq before
    /\ \A r \in before :
          (\A n \in rows : n.video_id # r.video_id) => r \in after

RowsOfTest(test_id) == { r \in test_videos : r.test_id = test_id }

\* C24: for every test that generate_preview persists with M non-short
\* competitor videos, the positions of its M+1 test_videos rows are the
\* integers 0..M, each used once, and the single row flagged is_user_video
\* holds the chosen user_position.
C24_PositionsOnce ==
    /\ \A t \in 1..Len(thumbnail_tests) :
          LET rows == RowsOfTest(t)
              user == { r \in rows : r.is_user_video }
          IN  rows # {} =>
                 /\ { r.position : r \in rows } = 0..(Cardinality(rows) - 1)
                 /\ \A p \in 0..(Cardinality(rows) - 1) :
                       Cardinality({ r \in rows : r.position = p }) = 1
                 /\ Cardinality(user) = 1
    /\ genPc \in {"persisted", "displayed"} =>
          LET rows == RowsOfTest(g.test_id)
          IN  /\ Cardinality(rows) = Len(g.non_shorts) + 1
              /\ \A r \in rows :
                    r.is_user_video => r.position = g.persisted_user_position

\* two competitor videos were persisted around a user video at position 1
C24_Witness ==
    /\ genPc = "persisted"
    /\ Len(g.non_shorts) = 2
    /\ g.persisted_user_position = 1
    /\ Cardinality(RowsOfTest(g.test_id)) = 3

\* ------------------------------------------------------------------------
\* Usage counter (C25, C26)
\* ------------------------------------------------------------------------
CompletedTests(user_id) ==
    { k \in DOMAIN thumbnail_tests :
        /\ thumbnail_tests[k].user_id = user_id
        /\ thumbnail_tests[k].status = "completed" }

\* C25 (as stated): generate_preview increments the user's usage counter
\* once for each request that persists a completed test and leaves it
\* unchanged on every path that ends in rejection or error; hence, between
\* requests, the counter equals the number of completed tests the user has
\* persisted.
C25_UsageCountsTests ==
    genPc \in {"idle", "done"} =>
        \A u \in Users : usage[u] = Cardinality(CompletedTests(u))

\* C26 (as stated): with can_create_test answering true exactly while the
\* counter is below the limit, a user never has more than tests_limit tests
\* persisted in a period, under any interleaving of the user's concurrent
\* generate_preview requests.
C26_NeverOverLimit ==
    Cardinality(CompletedTests(QuotaUser)) <= tests_limit

\* ------------------------------------------------------------------------
\* shuffle_results writes nothing (C27)
\* ------------------------------------------------------------------------
\* a step that serves a /shuffle request: the record of the call changes
\* and generate_preview does not move
ShuffleServed == sh' # sh /\ genPc' = genPc /\ g' = g

\* C27: shuffle_results is read-only with respect to stored state: a call
\* changes neither the in-memory sessions nor any persisted test, test_videos
\* row or video row, whatever the path it takes and whether it succeeds or
\* fails.
C27_ShuffleReadOnly ==
    [][ShuffleServed =>
          /\ sessions' = sessions
          /\ thumbnail_tests' = thumbnail_tests
          /\ test_videos' = test_videos
          /\ youtube_videos' = youtube_videos
          /\ usage' = usage]_vars

\* a call rebuilt a persisted arrangement of three items, reshuffled it and
\* failed; the rows it read are those of the arrangement
C27_Witness ==
    /\ sh.source = "store"
    /\ sh.status = 500
    /\ Len(sh.shuffled_videos) = 3
    /\ Cardinality(RowsOfTest(sh.session_id.n)) = 3

\* ------------------------------------------------------------------------
\* The angle cache (C28)
\* ------------------------------------------------------------------------
\* C28 (as stated): the angle generate_script uses for (video_id,
\* angle_index) is the angle at that index in the list most recently shown
\* to the same user by generate_angles for that video, under any
\* interleaving of the requests of several users on the same video.
C28_OwnAngle ==
    (cache.call.route = "generate_script" /\ cache.call.angle # <<>>) =>
        LET shown == cache.shown[cache.call.user][cache.call.video_id]
        IN  /\ cache.call.angle_index < Len(shown)
            /\ cache.call.angle[1] = shown[cache.call.angle_index + 1]

\* ------------------------------------------------------------------------
\* Subscription tier and limit (C29, C30)
\* ------------------------------------------------------------------------
TierMatchesLimit(profile) ==
    /\ profile.subscription_tier = "pro" <=> profile.tests_limit = pro_tests_limit
    /\ profile.subscription_tier = "free" <=> profile.tests_limit = free_tests_limit

TierAndLimit(profiles) ==
    [u \in Users |-> <<profiles[u].subscription_tier, profiles[u].tests_limit>>]

PaymentEvents == {"invoice.payment_succeeded", "invoice.payment_failed"}

\* C29: after any sequence of webhook events, starting from free profiles,
\* every profile has tier 'pro' exactly when its tests_limit is 999999 and
\* tier 'free' exactly when it is 5; and the payment_succeeded and
\* payment_failed handlers never change a tier or a limit.
C29_TierMatchesLimit ==
    /\ [](stripe.pc = "listening" =>
             \A u \in Users : TierMatchesLimit(stripe.profiles[u]))
    /\ [][(stripe.pc = "listening" /\ stripe'.event.type \in PaymentEvents
              /\ (PaymentSucceeded \/ PaymentFailed)) =>
             TierAndLimit(stripe'.profiles) = TierAndLimit(stripe.profiles)]_vars

\* a payment went through for a pro profile, whose status had been past_due,
\* while the other profile is free
C29_Witness ==
    /\ stripe.pc = "listening"
    /\ stripe.event.type = "invoice.payment_succeeded"
    /\ stripe.event.user = "u1"
    /\ stripe.profiles["u1"].subscription_tier = "pro"
    /\ stripe.profiles["u1"].tests_limit = pro_tests_limit
    /\ stripe.profiles["u1"].subscription_status = "active"
    /\ stripe.profiles["u2"].subscription_tier = "free"
    /\ stripe.profiles["u2"].subscription_status = "canceled"

\* C30 (as stated): for the same user and the same subscription status, the
\* customer.subscription.created handler and the customer.subscription.updated
\* handler set the same subscription_tier and tests_limit, so the tier a
\* user ends with does not depend on which of the two events delivered the
\* status.
C30_CreatedAgreesWithUpdated ==
    (/\ stripe.pc = "listening"
     /\ stripe.event.type \in {"customer.subscription.created",
                               "customer.subscription.updated"}
     /\ stripe.event.user # Anonymous) =>
        LET profile == stripe.profiles[stripe.event.user]
            created == subscription_created(profile, profile.stripe_subscription_id,
                                            stripe.event.status)
            updated == subscription_updated(profile, stripe.event.status)
        IN  /\ profile.subscription_tier = created.subscription_tier
            /\ profile.subscription_tier = updated.subscription_tier
            /\ profile.tests_limit = created.tests_limit
            /\ profile.tests_limit = updated.tests_limit

====
